---- MODULE Spec2Model ----
(***************************************************************************)
(* A model of the MCP documentation server: the LRU embedding cache        *)
(* (src/src/embeddings/embedding-cache.ts), the lazily initialised         *)
(* embedding provider (src/src/embedding-provider.ts), the file-per-       *)
(* document DocumentManager and its tools (src/src/server.ts) and the      *)
(* metadata-indexed FileDocumentStorage (src/src/document-manager.ts).     *)
(*                                                                         *)
(* Each component has its own specification (SpecCache, SpecProvider, ...) *)
(* over the one set of variables; a component's actions leave the other    *)
(* components' variables unchanged.                                        *)
(***************************************************************************)
EXTENDS Integers, Sequences, FiniteSets, Bags, TLC

(***************************************************************************)
(* Generic helpers                                                         *)
(***************************************************************************)
Range(s) == {s[i] : i \in 1..Len(s)}

Min(a, b) == IF a <= b THEN a ELSE b

Max(a, b) == IF a >= b THEN a ELSE b

\* Array.prototype.indexOf, 1-based; 0 when absent (the code's -1)
IndexOf(s, x) ==
    IF x \in Range(s) THEN CHOOSE i \in 1..Len(s) : s[i] = x /\ \A j \in 1..(i - 1) : s[j] # x
    ELSE 0

\* Array.prototype.splice(i, 1), 1-based
SpliceOne(s, i) == [j \in 1..(Len(s) - 1) |-> IF j < i THEN s[j] ELSE s[j + 1]]

\* a function without the key k (Map.prototype.delete)
MapDelete(m, k) == [x \in (DOMAIN m) \ {k} |-> m[x]]

\* a function with k bound to v (Map.prototype.set)
MapSet(m, k, v) == [x \in (DOMAIN m) \cup {k} |-> IF x = k THEN v ELSE m[x]]

EmptyMap == [x \in {} |-> 0]

(***************************************************************************)
(* Texts are sequences of one-character strings.                           *)
(***************************************************************************)
\* String.prototype.toLowerCase on the model's alphabet
LowerChar(c) ==
    CASE c = "A" -> "a"
      [] c = "B" -> "b"
      [] c = "C" -> "c"
      [] OTHER -> c

toLowerCase(t) == [i \in 1..Len(t) |-> LowerChar(t[i])]

IsSpace(c) == c = " "

RECURSIVE trimStart(_)
trimStart(t) == IF t # <<>> /\ IsSpace(Head(t)) THEN trimStart(Tail(t)) ELSE t

RECURSIVE trimEnd(_)
trimEnd(t) ==
    IF t # <<>> /\ IsSpace(t[Len(t)]) THEN trimEnd(SubSeq(t, 1, Len(t) - 1)) ELSE t

\* String.prototype.trim
trim(t) == trimEnd(trimStart(t))

(***************************************************************************)
(* Bounds                                                                  *)
(***************************************************************************)
\* largest capacity a cache is constructed with
MaxCacheSize == 2

\* number of direct cache calls followed from construction
MaxCacheOps == 5
AdminCalls == 3

\* generateEmbedding and preInitialize calls followed on one provider
MaxCalls == 3

\* doInitialize attempts followed on one provider
MaxLoads == 2

\* tool calls the server has in flight at the same time
MaxInFlight == 2

\* characters per chunk in createChunks: 700 in the code (200 in its first
\* version), scaled to the short texts of the model
chunkSize == 4

\* chunks of a document handed to search and to the context window
MaxChunks == 3

\* largest limit, before and after handed to the read tools
MaxLimit == 3

(***************************************************************************)
(* State                                                                   *)
(***************************************************************************)
VARIABLES
    cache,          \* EmbeddingCache.cache: hash -> [embedding, timestamp, accessCount]
    accessOrder,    \* EmbeddingCache.accessOrder: hashes, least recently used first
    keyOrder,       \* the keys of EmbeddingCache.cache in the order the Map iterates them
    maxSize,        \* EmbeddingCache.maxSize
    hits,           \* EmbeddingCache.hits
    misses,         \* EmbeddingCache.misses
    now,            \* Date.now(): a clock that advances with every cache call
    touched,        \* history: hash -> time of its latest get-hit or set
    cacheOp,        \* history: the latest cache call and what it returned
    preloading      \* the pairs the running preload call has yet to store

VARIABLES
    isInitialized,  \* TransformersEmbeddingProvider.isInitialized
    pipeline,       \* TransformersEmbeddingProvider.pipeline: "null" or "model"
    initPromise,    \* TransformersEmbeddingProvider.initPromise: 0 (null) or a promise
    promiseState,   \* the doInitialize promises: "pending", "resolved", "timeout", "error"
    cacheOn,        \* whether the constructor created an EmbeddingCache
    modelName,      \* the model the provider was constructed for
    entryPoint,     \* the file the server process was started from
    calls           \* the generateEmbedding / preInitialize calls and where each stands

VARIABLES
    qDoc,           \* the chunks of the document file the read tools are called on
    qResult         \* history: the latest read call, its arguments and its result

VARIABLES
    files,          \* the data directory: document id -> content of <id>.json
    requests,       \* the tool calls in flight and where each stands (a bag)
    lastRes,        \* history: the tool call that finished last and its result
    deleted         \* history: ids whose delete reported success, no add since

VARIABLES
    documents,      \* documents/<id>.json: id -> title of the document stored
    embeddings,     \* ids that have a documents/<id>.embedding.json
    metadata,       \* FileDocumentStorage.metadata: id -> title
    metadataFile,   \* metadata.json: id -> title, the entries that can be read from it
    metadataFileState, \* metadata.json is "ok", "missing", "empty" or "corrupt"
    operations,     \* the save and delete calls in flight (a bag)
    outcome         \* history: the storage call that finished last and its result

VARIABLES
    factory,        \* the createEmbeddingProvider call in progress and where it stands
    created         \* history: the calls that resolved, what was asked and what came back

VARIABLES
    mappingFile,    \* gemini_file_mappings.json: whether it exists and the table in it
    mappingData,    \* GeminiFileMappingService.mappingData: document id -> gemini file id
    mappingOps,     \* the loadMappings / saveMappings calls awaiting the file system (a bag)
    mappingLog      \* history: the file at initialize time and the mappings added since

VARIABLES
    resizing        \* the resize call that is running and where it stands in its loop

cacheVars == <<cache, accessOrder, keyOrder, maxSize, hits, misses, now, touched, cacheOp,
               preloading>>

providerVars == <<isInitialized, pipeline, initPromise, promiseState, cacheOn,
                  modelName, entryPoint, calls>>

queryVars == <<qDoc, qResult>>

serverVars == <<files, requests, lastRes, deleted>>

storageVars == <<documents, embeddings, metadata, metadataFile, metadataFileState,
                 operations, outcome>>

factoryVars == <<factory, created>>

mappingVars == <<mappingFile, mappingData, mappingOps, mappingLog>>

resizeVars == <<resizing>>

vars == <<cacheVars, providerVars, queryVars, serverVars, storageVars,
         factoryVars,
         mappingVars,
         resizeVars>>

(***************************************************************************)
(* The embedding cache (src/src/embeddings/embedding-cache.ts)             *)
(***************************************************************************)
\* texts offered to the cache: "a" and "A " share a key
CacheTexts == {<<"a">>, <<"A", " ">>, <<"b">>, <<"c">>}

\* embeddings offered to the cache
CacheVectors == {<<1, 0>>, <<0, 1>>}

\* hash with the bug of digesting the text as given
hashRaw(text) == text

\* EmbeddingCache.hash: sha256 of the trimmed, lower-cased text. The digest is
\* modelled by the normalised text itself (an injective digest).
hash(text) == toLowerCase(trim(text))

\* updateAccessOrder with the bug of leaving a key that is already tracked in place
updateAccessOrderKeepPlace(order, h) ==
    IF IndexOf(order, h) # 0 THEN order ELSE Append(order, h)

\* EmbeddingCache.updateAccessOrder: the access order after touching h
updateAccessOrder(order, h) ==
    LET currentIndex == IndexOf(order, h)
        removed == IF currentIndex # 0 THEN SpliceOne(order, currentIndex) ELSE order
    IN  Append(removed, h)

\* EmbeddingCache.evictLRU on the pair [cache, accessOrder]
\* the iteration order of a Map: a key that is set keeps its place when the
\* Map has it and goes to the end otherwise; a deleted key leaves the order
mapKeys(keys, c) ==
    LET kept == SelectSeq(keys, LAMBDA k : k \in DOMAIN c)
        RECURSIVE appendNew(_, _)
        appendNew(order, new) ==
            IF new = {} THEN order
            ELSE LET k == CHOOSE x \in new : TRUE
                 IN  appendNew(Append(order, k), new \ {k})
    IN  appendNew(kept, DOMAIN c \ Range(kept))

evictLRU(c, order) ==
    IF Len(order) = 0 THEN [cache |-> c, accessOrder |-> order]
    ELSE [cache |-> MapDelete(c, Head(order)), accessOrder |-> Tail(order)]

\* EmbeddingCache constructor, for the capacity n
CacheInit(n) ==
    /\ cache = EmptyMap
    /\ accessOrder = <<>>
    /\ keyOrder = <<>>
    /\ maxSize = n
    /\ hits = 0
    /\ misses = 0
    /\ now = 0
    /\ touched = EmptyMap
    /\ cacheOp = [kind |-> "new"]
    /\ preloading = <<>>

\* EmbeddingCache constructor in a process whose clock already reads time
CacheInitAt(n, time) ==
    /\ cache = EmptyMap
    /\ accessOrder = <<>>
    /\ keyOrder = <<>>
    /\ maxSize = n
    /\ hits = 0
    /\ misses = 0
    /\ now = time
    /\ touched = EmptyMap
    /\ cacheOp = [kind |-> "new"]
    /\ preloading = <<>>

\* EmbeddingCache.getEmbedding(text)
getEmbedding(text) ==
    LET h == hash(text) IN
    /\ now' = now + 1
    /\ IF h \in DOMAIN cache
       THEN /\ cache' = [cache EXCEPT ![h].timestamp = now',
                                      ![h].accessCount = @ + 1]
            /\ accessOrder' = updateAccessOrder(accessOrder, h)
            /\ hits' = hits + 1
            /\ misses' = misses
            /\ touched' = MapSet(touched, h, now')
            /\ cacheOp' = [kind |-> "get", key |-> h, hit |-> TRUE,
                           result |-> cache[h].embedding]
       ELSE /\ misses' = misses + 1
            /\ cacheOp' = [kind |-> "get", key |-> h, hit |-> FALSE]
            /\ UNCHANGED <<cache, accessOrder, hits, touched>>
    /\ UNCHANGED <<maxSize, keyOrder>>

\* EmbeddingCache.setEmbedding(text, embedding)
setEmbedding(text, embedding) ==
    LET h == hash(text)
        evicting == Cardinality(DOMAIN cache) >= maxSize /\ h \notin DOMAIN cache
        e == IF evicting THEN evictLRU(cache, accessOrder)
             ELSE [cache |-> cache, accessOrder |-> accessOrder]
    IN
    /\ now' = now + 1
    /\ cache' = MapSet(e.cache, h, [embedding |-> embedding, timestamp |-> now',
                                    accessCount |-> 1])
    /\ accessOrder' = updateAccessOrder(e.accessOrder, h)
    /\ keyOrder' = mapKeys(keyOrder, cache')
    /\ touched' = MapSet(touched, h, now')
    /\ cacheOp' = [kind |-> "set", key |-> h, wasFull |-> evicting,
                   before |-> DOMAIN cache]
    /\ UNCHANGED <<maxSize, hits, misses>>

\* a direct call of getEmbedding
CacheGet ==
    /\ now < MaxCacheOps
    /\ \E t \in CacheTexts : getEmbedding(t)
    /\ UNCHANGED <<preloading, providerVars, queryVars, serverVars, storageVars, factoryVars, mappingVars, resizeVars>>

\* a direct call of setEmbedding
CacheSet ==
    /\ now < MaxCacheOps
    /\ \E t \in CacheTexts, v \in CacheVectors : setEmbedding(t, v)
    /\ UNCHANGED <<preloading, providerVars, queryVars, serverVars, storageVars, factoryVars, mappingVars, resizeVars>>

\* the capacities resize is called with
CacheSizes == 0..MaxCacheSize

\* the lists preload is called with
PreloadLists ==
    {<<[text |-> <<"a">>, embedding |-> <<1, 0>>], [text |-> <<"b">>, embedding |-> <<0, 1>>]>>,
     <<[text |-> <<"c">>, embedding |-> <<1, 0>>],
       [text |-> <<"A", " ">>, embedding |-> <<0, 1>>],
       [text |-> <<"b">>, embedding |-> <<1, 0>>]>>}

\* an entry of exported cache data
exportedEntry(h, time) ==
    [hash |-> h, embedding |-> <<1, 0>>, timestamp |-> time, accessCount |-> 1]

\* the data importCache is called with: what exportCache returned for a cache
\* of one entry and capacity 2, data of another version, data with more
\* entries than its maxSize, and data whose maxSize is 0
CacheData ==
    {[version |-> "1.0", maxSize |-> 2, entries |-> <<exportedEntry(<<"a">>, 1)>>],
     [version |-> "0.9", maxSize |-> 2, entries |-> <<exportedEntry(<<"a">>, 1)>>],
     [version |-> "1.0", maxSize |-> 1,
      entries |-> <<exportedEntry(<<"a">>, 1), exportedEntry(<<"b">>, 2)>>],
     [version |-> "1.0", maxSize |-> 0, entries |-> <<exportedEntry(<<"c">>, 1)>>]}

\* the loop of resize, for a size of 0 or more: evictLRU while the cache holds
\* more than maxSize
RECURSIVE evictDownTo(_, _, _)
evictDownTo(c, order, size) ==
    IF Cardinality(DOMAIN c) > size /\ Len(order) > 0
    THEN evictDownTo(evictLRU(c, order).cache, evictLRU(c, order).accessOrder, size)
    ELSE [cache |-> c, accessOrder |-> order]

\* EmbeddingCache.resize(newSize)
resize(newSize) ==
    LET e == evictDownTo(cache, accessOrder, newSize) IN
    /\ maxSize' = newSize
    /\ cache' = e.cache
    /\ accessOrder' = e.accessOrder
    /\ keyOrder' = mapKeys(keyOrder, cache')
    /\ cacheOp' = [kind |-> "resize", size |-> newSize]
    /\ UNCHANGED <<hits, misses, now, touched, preloading>>

\* EmbeddingCache.clear()
clear ==
    /\ cache' = EmptyMap
    /\ accessOrder' = <<>>
    /\ keyOrder' = <<>>
    /\ hits' = 0
    /\ misses' = 0
    /\ touched' = EmptyMap
    /\ cacheOp' = [kind |-> "clear"]
    /\ UNCHANGED <<maxSize, now, preloading>>

\* the loop of importCache: cache.set and accessOrder.push for every entry
RECURSIVE importEntries(_, _, _)
importEntries(c, order, entries) ==
    IF entries = <<>> THEN [cache |-> c, accessOrder |-> order]
    ELSE LET entry == Head(entries)
         IN  importEntries(MapSet(c, entry.hash,
                                  [embedding |-> entry.embedding,
                                   timestamp |-> entry.timestamp,
                                   accessCount |-> entry.accessCount]),
                           Append(order, entry.hash), Tail(entries))

\* the keys of a Map that was filled by one set per element of order
RECURSIVE firstOccurrences(_)
firstOccurrences(order) ==
    IF order = <<>> THEN <<>>
    ELSE LET rest == firstOccurrences(SubSeq(order, 1, Len(order) - 1))
             k == order[Len(order)]
         IN  IF k \in Range(rest) THEN rest ELSE Append(rest, k)

\* EmbeddingCache.importCache(cacheData); 0 || this.maxSize is this.maxSize
importCache(cacheData) ==
    IF cacheData.version # "1.0"
    THEN /\ cacheOp' = [kind |-> "import", imported |-> FALSE]
         /\ UNCHANGED <<cache, accessOrder, keyOrder, maxSize, hits, misses, now, touched,
                        preloading>>
    ELSE LET e == importEntries(EmptyMap, <<>>, cacheData.entries) IN
         /\ cache' = e.cache
         /\ accessOrder' = e.accessOrder
         /\ keyOrder' = firstOccurrences(e.accessOrder)
         /\ hits' = 0
         /\ misses' = 0
         /\ maxSize' = IF cacheData.maxSize # 0 THEN cacheData.maxSize ELSE maxSize
         /\ touched' = [h \in DOMAIN e.cache |-> e.cache[h].timestamp]
         /\ cacheOp' = [kind |-> "import", imported |-> TRUE]
         /\ UNCHANGED <<now, preloading>>

\* EmbeddingCache.preload(pairs) up to its first await
preload(pairs) ==
    /\ preloading = <<>>
    /\ preloading' = pairs
    /\ cacheOp' = [kind |-> "preload"]
    /\ UNCHANGED <<cache, accessOrder, keyOrder, maxSize, hits, misses, now, touched>>

\* preload: one turn of its loop, await this.setEmbedding(pair.text, pair.embedding)
preloadNext ==
    /\ preloading # <<>>
    /\ setEmbedding(Head(preloading).text, Head(preloading).embedding)
    /\ preloading' = Tail(preloading)

\* EmbeddingCache.exportCache(): one entry per key, in the order of the Map
exportCache ==
    [version |-> "1.0",
     maxSize |-> maxSize,
     entries |-> [i \in 1..Len(keyOrder) |->
                    [hash |-> keyOrder[i],
                     embedding |-> cache[keyOrder[i]].embedding,
                     timestamp |-> cache[keyOrder[i]].timestamp,
                     accessCount |-> cache[keyOrder[i]].accessCount]]]

\* a cache is exported and takes in its own export
CacheRoundTrip ==
    /\ importCache(exportCache)
    /\ UNCHANGED <<providerVars, queryVars, serverVars, storageVars, factoryVars, mappingVars, resizeVars>>

CacheResize ==
    /\ \E newSize \in CacheSizes : resize(newSize)
    /\ UNCHANGED <<providerVars, queryVars, serverVars, storageVars, factoryVars, mappingVars, resizeVars>>

CacheClear ==
    /\ clear
    /\ UNCHANGED <<providerVars, queryVars, serverVars, storageVars, factoryVars, mappingVars, resizeVars>>

CacheImport ==
    /\ \E cacheData \in CacheData : importCache(cacheData)
    /\ UNCHANGED <<providerVars, queryVars, serverVars, storageVars, factoryVars, mappingVars, resizeVars>>

CachePreload ==
    /\ now < MaxCacheOps
    /\ \E pairs \in PreloadLists : preload(pairs)
    /\ UNCHANGED <<providerVars, queryVars, serverVars, storageVars, factoryVars, mappingVars, resizeVars>>

CachePreloadNext ==
    /\ now < MaxCacheOps
    /\ preloadNext
    /\ UNCHANGED <<providerVars, queryVars, serverVars, storageVars, factoryVars, mappingVars, resizeVars>>

(***************************************************************************)
(* The embedding provider (src/src/embedding-provider.ts)                  *)
(***************************************************************************)
Calls == 1..MaxCalls

\* texts handed to generateEmbedding
ProviderTexts == {<<"a">>, <<"A", " ">>}

\* texts handed to the generateEmbedding of a provider with a cache
CachedTexts == {<<"a">>, <<"A", " ">>, <<"b">>}

Rejected(p) == promiseState[p] \in {"timeout", "error"}

Settled(p) == promiseState[p] # "pending"

\* the output of the all-MiniLM-L6-v2 pipeline for a text: one vector per raw
\* text, of 2 components: its length and the number of its upper-case characters
ModelOutput(text) ==
    <<Len(text), Cardinality({i \in 1..Len(text) : LowerChar(text[i]) # text[i]})>>

\* the values MCP_EMBEDDING_MODEL is given: the two models of the README and
\* another sentence-embedding model of the same hub
ModelNames == {"Xenova/all-MiniLM-L6-v2",
               "Xenova/paraphrase-multilingual-mpnet-base-v2",
               "Xenova/all-mpnet-base-v2"}

\* getModelDimensions; vector lengths are written in units of 192 components,
\* so that 2 stands for 384 and 4 for 768
getModelDimensions(name) ==
    CASE name = "Xenova/all-MiniLM-L6-v2" -> 2
      [] name = "Xenova/paraphrase-multilingual-mpnet-base-v2" -> 4
      [] OTHER -> 2

\* TransformersEmbeddingProvider.getDimensions: the field the constructor set
\* from getModelDimensions(modelName)
getDimensions == getModelDimensions(modelName)

\* the length of the vectors a model's pipeline puts out: 384 components for
\* all-MiniLM-L6-v2, 768 for the two mpnet models
hiddenSize(name) == IF name = "Xenova/all-MiniLM-L6-v2" THEN 2 ELSE 4

\* Array.from(output.data) for the provider's model
embeddingOf(text) ==
    ModelOutput(text) \o [i \in 1..(hiddenSize(modelName) - Len(ModelOutput(text))) |-> 0]

\* a call that has not been issued. sawFailure: some generateEmbedding call had
\* already failed on a rejected load when this one was issued; stale: the
\* promise this call was made to wait for had already been rejected; inFlight:
\* the load that was pending when this call reached initialize (0: none); at:
\* the cache's clock at this call's lookup; doneAt: the cache's clock when this
\* call stored the pipeline's output; evicts: the keys that store evicted
IdleCall == [pc |-> "idle", kind |-> "none", text |-> <<>>, hit |-> FALSE,
             awaiting |-> 0, stale |-> FALSE, sawFailure |-> FALSE, inFlight |-> 0,
             outcome |-> "none", result |-> <<>>,
             at |-> 0, doneAt |-> 0, evicts |-> {}]

LoadsInFlight == {p \in DOMAIN promiseState : promiseState[p] = "pending"}

\* calls are numbered in the order in which they are issued
NextCall(c) == calls[c].pc = "idle" /\ \A d \in 1..(c - 1) : calls[d].pc # "idle"

SomeCallFailedOnLoad == \E d \in Calls : calls[d].outcome = "initError"

\* TransformersEmbeddingProvider constructor, for the model name m
ProviderNew(m) ==
    /\ isInitialized = FALSE
    /\ pipeline = "null"
    /\ initPromise = 0
    /\ promiseState = EmptyMap
    /\ cacheOn \in BOOLEAN
    /\ modelName = m
    /\ calls = [c \in Calls |-> IdleCall]

\* TransformersEmbeddingProvider constructor with its default argument, in the
\* server package.json starts
ProviderInit == ProviderNew("Xenova/all-MiniLM-L6-v2") /\ entryPoint = "server.ts"

\* no provider is in use
ProviderIdle ==
    /\ isInitialized = FALSE
    /\ pipeline = "null"
    /\ initPromise = 0
    /\ promiseState = EmptyMap
    /\ cacheOn = FALSE
    /\ modelName = "Xenova/all-MiniLM-L6-v2"
    /\ entryPoint = "server.ts"
    /\ calls = [c \in Calls |-> IdleCall]

\* initialize with the bug of not looking at initPromise: every caller that
\* finds the model not ready starts a load of its own
initializeNoGuard ==
    IF isInitialized
    THEN [awaiting |-> 0, started |-> FALSE, stale |-> FALSE]
    ELSE [awaiting |-> Cardinality(DOMAIN promiseState) + 1, started |-> TRUE,
          stale |-> FALSE]

\* TransformersEmbeddingProvider.initialize up to its await: the promise the
\* caller waits for (0: initialize returns at once), whether doInitialize is
\* started, and whether the promise waited for had already been rejected
initialize ==
    IF isInitialized
    THEN [awaiting |-> 0, started |-> FALSE, stale |-> FALSE]
    ELSE IF initPromise # 0
    THEN [awaiting |-> initPromise, started |-> FALSE, stale |-> Rejected(initPromise)]
    ELSE [awaiting |-> Cardinality(DOMAIN promiseState) + 1, started |-> TRUE,
          stale |-> FALSE]

\* call c runs initialize, starting doInitialize when initialize says so
CallInitialize(c, next) ==
    LET i == initialize IN
    /\ i.started => i.awaiting <= MaxLoads
    /\ IF i.started
       THEN /\ promiseState' = MapSet(promiseState, i.awaiting, "pending")
            /\ initPromise' = i.awaiting
       ELSE UNCHANGED <<promiseState, initPromise>>
    /\ calls' = [calls EXCEPT ![c] =
          [next EXCEPT !.awaiting = i.awaiting, !.stale = i.stale,
                       !.inFlight = IF LoadsInFlight = {} THEN 0
                                    ELSE CHOOSE q \in LoadsInFlight : TRUE]]
    /\ UNCHANGED <<isInitialized, pipeline, cacheOn, modelName, entryPoint>>

\* generateEmbedding(text) up to its first await: the cache lookup, or, without
\* a cache, the call of initialize
GenStart(c, text) ==
    /\ NextCall(c)
    /\ IF cacheOn
       THEN /\ getEmbedding(text)
            /\ UNCHANGED preloading
            /\ calls' = [calls EXCEPT ![c] =
                  [IdleCall EXCEPT !.pc = "afterCache", !.kind = "gen", !.text = text,
                                   !.sawFailure = SomeCallFailedOnLoad,
                                   !.at = now',
                                   !.hit = hash(text) \in DOMAIN cache,
                                   !.result = IF hash(text) \in DOMAIN cache
                                              THEN cache[hash(text)].embedding
                                              ELSE <<>>]]
            /\ UNCHANGED <<isInitialized, pipeline, initPromise, promiseState, cacheOn,
                         modelName, entryPoint>>
       ELSE /\ CallInitialize(c, [IdleCall EXCEPT !.pc = "awaitInit", !.kind = "gen",
                                                  !.text = text,
                                                  !.sawFailure = SomeCallFailedOnLoad])
            /\ UNCHANGED cacheVars

\* generateEmbedding after the cache lookup: a hit is returned, a miss goes on
\* to initialize
GenAfterCache(c) ==
    /\ calls[c].pc = "afterCache"
    /\ IF calls[c].hit
       THEN /\ calls' = [calls EXCEPT ![c].pc = "done", ![c].outcome = "cached"]
            /\ UNCHANGED <<isInitialized, pipeline, initPromise, promiseState, cacheOn,
                         modelName, entryPoint>>
       ELSE CallInitialize(c, [calls[c] EXCEPT !.pc = "awaitInit"])
    /\ UNCHANGED cacheVars

\* generateEmbedding resumes from `await this.initialize()`: a rejected load
\* makes it throw; otherwise it calls the pipeline
GenAfterInit(c) ==
    /\ calls[c].pc = "awaitInit"
    /\ calls[c].kind = "gen"
    /\ calls[c].awaiting # 0 => Settled(calls[c].awaiting)
    /\ calls' = [calls EXCEPT ![c] =
          IF calls[c].awaiting # 0 /\ Rejected(calls[c].awaiting)
          THEN [@ EXCEPT !.pc = "done", !.outcome = "initError"]
          ELSE IF pipeline = "null"
          THEN [@ EXCEPT !.pc = "done", !.outcome = "noPipeline"]
          ELSE [@ EXCEPT !.pc = "awaitModel"]]
    /\ UNCHANGED <<isInitialized, pipeline, initPromise, promiseState, cacheOn,
                         modelName, entryPoint>>
    /\ UNCHANGED cacheVars

\* the pipeline returns the embedding: it is cached and returned
GenModelReturns(c) ==
    /\ calls[c].pc = "awaitModel"
    /\ IF cacheOn
       THEN setEmbedding(calls[c].text, embeddingOf(calls[c].text)) /\ UNCHANGED preloading
       ELSE UNCHANGED cacheVars
    /\ calls' = [calls EXCEPT ![c].pc = "done", ![c].outcome = "computed",
                              ![c].result = embeddingOf(calls[c].text),
                              ![c].doneAt = now',
                              ![c].evicts = DOMAIN cache \ DOMAIN cache']
    /\ UNCHANGED <<isInitialized, pipeline, initPromise, promiseState, cacheOn,
                         modelName, entryPoint>>

\* the pipeline throws: generateEmbedding throws "Failed to generate embedding"
GenModelFails(c) ==
    /\ calls[c].pc = "awaitModel"
    /\ calls' = [calls EXCEPT ![c].pc = "done", ![c].outcome = "embedError"]
    /\ UNCHANGED <<isInitialized, pipeline, initPromise, promiseState, cacheOn,
                         modelName, entryPoint>>
    /\ UNCHANGED cacheVars

\* preInitialize: returns at once when the model is ready or a promise is set;
\* otherwise starts initialize and leaves a catch handler on it
PreStart(c) ==
    /\ NextCall(c)
    /\ IF isInitialized \/ initPromise # 0
       THEN /\ calls' = [calls EXCEPT ![c] =
                  [IdleCall EXCEPT !.pc = "done", !.kind = "pre", !.outcome = "returned"]]
            /\ UNCHANGED <<isInitialized, pipeline, initPromise, promiseState, cacheOn,
                         modelName, entryPoint>>
       ELSE CallInitialize(c, [IdleCall EXCEPT !.pc = "awaitInit", !.kind = "pre"])
    /\ UNCHANGED cacheVars

\* the initialize call started by preInitialize settles: its catch handler
\* resets initPromise when the load was rejected
PreSettled(c) ==
    /\ calls[c].pc = "awaitInit"
    /\ calls[c].kind = "pre"
    /\ Settled(calls[c].awaiting)
    /\ IF Rejected(calls[c].awaiting)
       THEN /\ initPromise' = 0
            /\ calls' = [calls EXCEPT ![c].pc = "done", ![c].outcome = "reset"]
       ELSE /\ UNCHANGED initPromise
            /\ calls' = [calls EXCEPT ![c].pc = "done", ![c].outcome = "loaded"]
    /\ UNCHANGED <<isInitialized, pipeline, promiseState, cacheOn, modelName, entryPoint>>
    /\ UNCHANGED cacheVars

\* doInitialize: the pipeline load wins the race against the timeout
LoadSucceeds(p) ==
    /\ p \in DOMAIN promiseState
    /\ promiseState[p] = "pending"
    /\ pipeline' = "model"
    /\ isInitialized' = TRUE
    /\ promiseState' = [promiseState EXCEPT ![p] = "resolved"]
    /\ UNCHANGED <<initPromise, cacheOn, modelName, entryPoint, calls>>
    /\ UNCHANGED cacheVars

\* doInitialize: the timeout fires first, or the pipeline load throws
LoadFails(p, why) ==
    /\ p \in DOMAIN promiseState
    /\ promiseState[p] = "pending"
    /\ promiseState' = [promiseState EXCEPT ![p] = why]
    /\ UNCHANGED <<isInitialized, pipeline, initPromise, cacheOn, modelName, entryPoint, calls>>
    /\ UNCHANGED cacheVars

GenerateStarts ==
    /\ \E c \in Calls, t \in ProviderTexts : GenStart(c, t)
    /\ UNCHANGED <<queryVars, serverVars, storageVars, factoryVars, mappingVars, resizeVars>>

\* TransformersEmbeddingProvider.isAvailable
isAvailable == isInitialized /\ pipeline # "null"

\* add_document or search_documents of server.ts, as far as the provider sees
\* it: initializeDocumentManager, then the first generateEmbedding call of
\* createChunks or searchDocuments
ServerToolStart(c, text) ==
    /\ entryPoint = "server.ts"
    /\ GenStart(c, text)

\* add_document or search_documents of index.ts, as far as the provider sees
\* it: initializeServer, then the tool throws unless searchEngine.isReady(),
\* and otherwise reaches generateEmbedding
IndexToolStart(c, text) ==
    /\ entryPoint = "index.ts"
    /\ IF isAvailable
       THEN GenStart(c, text)
       ELSE /\ NextCall(c)
            /\ calls' = [calls EXCEPT ![c] =
                  [IdleCall EXCEPT !.pc = "done", !.kind = "gen", !.text = text,
                                   !.outcome = "notReady"]]
            /\ UNCHANGED <<isInitialized, pipeline, initPromise, promiseState, cacheOn,
                           modelName, entryPoint>>
            /\ UNCHANGED cacheVars

ServerToolStarts ==
    /\ \E c \in Calls, t \in ProviderTexts : ServerToolStart(c, t)
    /\ UNCHANGED <<queryVars, serverVars, storageVars, factoryVars, mappingVars, resizeVars>>

IndexToolStarts ==
    /\ \E c \in Calls, t \in ProviderTexts : IndexToolStart(c, t)
    /\ UNCHANGED <<queryVars, serverVars, storageVars, factoryVars, mappingVars, resizeVars>>

\* generateEmbedding of a provider with a cache, over texts with two cache
\* keys, issued by callers that keep at most MaxInFlight calls unanswered
CachedGenerateStarts ==
    /\ cacheOn
    /\ Cardinality({d \in Calls : calls[d].pc \notin {"idle", "done"}}) < MaxInFlight
    /\ \E c \in Calls, t \in CachedTexts : GenStart(c, t)
    /\ UNCHANGED <<queryVars, serverVars, storageVars, factoryVars, mappingVars, resizeVars>>

GenerateLooksUp ==
    /\ \E c \in Calls : GenAfterCache(c)
    /\ UNCHANGED <<queryVars, serverVars, storageVars, factoryVars, mappingVars, resizeVars>>

GenerateResumes ==
    /\ \E c \in Calls : GenAfterInit(c)
    /\ UNCHANGED <<queryVars, serverVars, storageVars, factoryVars, mappingVars, resizeVars>>

PipelineReturns ==
    /\ \E c \in Calls : GenModelReturns(c)
    /\ UNCHANGED <<queryVars, serverVars, storageVars, factoryVars, mappingVars, resizeVars>>

PipelineThrows ==
    /\ \E c \in Calls : GenModelFails(c)
    /\ UNCHANGED <<queryVars, serverVars, storageVars, factoryVars, mappingVars, resizeVars>>

PreInitializeStarts ==
    /\ \E c \in Calls : PreStart(c)
    /\ UNCHANGED <<queryVars, serverVars, storageVars, factoryVars, mappingVars, resizeVars>>

PreInitializeSettles ==
    /\ \E c \in Calls : PreSettled(c)
    /\ UNCHANGED <<queryVars, serverVars, storageVars, factoryVars, mappingVars, resizeVars>>

LoadResolves ==
    /\ \E p \in 1..MaxLoads : LoadSucceeds(p)
    /\ UNCHANGED <<queryVars, serverVars, storageVars, factoryVars, mappingVars, resizeVars>>

LoadRejects ==
    /\ \E p \in 1..MaxLoads, why \in {"timeout", "error"} : LoadFails(p, why)
    /\ UNCHANGED <<queryVars, serverVars, storageVars, factoryVars, mappingVars, resizeVars>>

(***************************************************************************)
(* Reading a stored document (src/src/server.ts): search and the context   *)
(* window.  A document file holds a list of chunks; the files on disk may  *)
(* come from any version of the server or from another embedding provider, *)
(* so a chunk's embedding is any short integer vector, the zero vector, a  *)
(* vector of another dimension, or absent.                                 *)
(***************************************************************************)

\* what a chunk's "embeddings" field may hold; <<>> is absent or empty
StoredEmbeddings == {<<>>, <<1>>, <<0, 0>>, <<1, 0>>, <<0, 1>>, <<1, 1>>}

\* what generateEmbedding(query) may return
QueryEmbeddings == {<<1, 0>>, <<1, 1>>, <<0, 0>>}

\* the chunk lists createChunks writes: chunk_index counts from 0 in list order
StoredChunkLists ==
    UNION {[1..n -> StoredEmbeddings] : n \in 0..MaxChunks}

chunksOf(embs) == [i \in 1..Len(embs) |-> [chunk_index |-> i - 1, embeddings |-> embs[i]]]

\* Array.prototype.slice(start, end): a negative bound counts from the end
slice(s, start, end) ==
    LET len == Len(s)
        k == IF start < 0 THEN Max(len + start, 0) ELSE Min(start, len)
        final == IF end < 0 THEN Max(len + end, 0) ELSE Min(end, len)
    IN  SubSeq(s, k + 1, final)

\* Array.prototype.filter
RECURSIVE filterEmbedded(_)
filterEmbedded(chunks) ==
    IF chunks = <<>> THEN <<>>
    ELSE LET chunk == Head(chunks)
             rest == filterEmbedded(Tail(chunks))
         IN  IF Len(chunk.embeddings) > 0 THEN <<chunk>> \o rest ELSE rest

RECURSIVE SumTo(_, _, _)
SumTo(a, b, n) == IF n = 0 THEN 0 ELSE SumTo(a, b, n - 1) + a[n] * b[n]

Abs(x) == IF x < 0 THEN -x ELSE x

\* A score is the number dotProduct / (sqrt(normA) * sqrt(normB)), kept exact
\* as the signed square of its numerator over the square of its denominator;
\* 0 / 0 is NaN.
NaN == [nan |-> TRUE, num |-> 0, den |-> 1]

Zero == [nan |-> FALSE, num |-> 0, den |-> 1]

cosineSimilarity(a, b) ==
    IF Len(a) # Len(b) THEN Zero
    ELSE LET dotProduct == SumTo(a, b, Len(a))
             normA == SumTo(a, a, Len(a))
             normB == SumTo(b, b, Len(a))
         IN  IF normA * normB = 0 THEN NaN
             ELSE [nan |-> FALSE, num |-> dotProduct * Abs(dotProduct), den |-> normA * normB]

IsNumber(x) == ~x.nan

ScoreLess(x, y) == IsNumber(x) /\ IsNumber(y) /\ x.num * y.den < y.num * x.den

ScoreEqual(x, y) == IsNumber(x) /\ IsNumber(y) /\ x.num * y.den = y.num * x.den

\* the comparator (a, b) => b.score - a.score: negative when a goes first;
\* with a NaN operand the difference is NaN
compareScore(a, b) ==
    IF a.score.nan \/ b.score.nan THEN "NaN"
    ELSE IF ScoreLess(b.score, a.score) THEN "negative"
    ELSE IF ScoreLess(a.score, b.score) THEN "positive"
    ELSE "zero"

\* stable insertion of x behind every element that does not sort after it
RECURSIVE insertStable(_, _)
insertStable(sorted, x) ==
    IF sorted = <<>> THEN <<x>>
    ELSE IF compareScore(Head(sorted), x) = "positive" THEN <<x>> \o sorted
    ELSE <<Head(sorted)>> \o insertStable(Tail(sorted), x)

RECURSIVE stableSort(_)
stableSort(items) ==
    IF items = <<>> THEN <<>>
    ELSE insertStable(stableSort(SubSeq(items, 1, Len(items) - 1)), items[Len(items)])

\* Array.prototype.sort with this comparator: stable, and the sorted order
\* when the comparator orders the items consistently; when a score is NaN
\* the comparator is not consistent and the order is implementation-defined
\* (ECMAScript SortCompare), so every order is a possible outcome
sort(items) ==
    IF \E i \in 1..Len(items) : items[i].score.nan
    THEN {[i \in 1..Len(items) |-> items[p[i]]] : p \in Permutations(1..Len(items))}
    ELSE {stableSort(items)}

\* DocumentManager.searchDocuments after the query was embedded and the
\* document read: the results the call may return
searchDocuments(chunks, queryEmbedding, limit) ==
    LET embedded == filterEmbedded(chunks)
        scored == [i \in 1..Len(embedded) |->
                     [chunk |-> embedded[i],
                      score |-> cosineSimilarity(queryEmbedding, embedded[i].embeddings)]]
    IN  {slice(sorted, 0, limit) : sorted \in sort(scored)}

\* the get_context_window tool on a document that was found
getContextWindow(chunks, chunk_index, before, after) ==
    LET total == Len(chunks)
        start == Max(0, chunk_index - before)
        end == Min(total, chunk_index + after + 1)
        windowChunks == slice(chunks, start, end)
    IN  [window |-> [i \in 1..Len(windowChunks) |-> windowChunks[i].chunk_index],
         center |-> chunk_index,
         total_chunks |-> total]

QueryIdle ==
    /\ qDoc = <<>>
    /\ qResult = [op |-> "none"]

QueryInit ==
    /\ qDoc \in {chunksOf(embs) : embs \in StoredChunkLists}
    /\ qResult = [op |-> "none"]

SearchDocuments ==
    /\ \E queryEmbedding \in QueryEmbeddings, limit \in 0..MaxLimit :
         \E results \in searchDocuments(qDoc, queryEmbedding, limit) :
            qResult' = [op |-> "search", query |-> queryEmbedding, limit |-> limit,
                        results |-> results]
    /\ UNCHANGED <<qDoc, cacheVars, providerVars, serverVars, storageVars, factoryVars, mappingVars, resizeVars>>

GetContextWindow ==
    /\ \E chunk_index \in (-MaxChunks)..MaxChunks, before \in 0..MaxLimit, after \in 0..MaxLimit :
         qResult' = [op |-> "window", chunk_index |-> chunk_index, before |-> before,
                     after |-> after,
                     out |-> getContextWindow(qDoc, chunk_index, before, after)]
    /\ UNCHANGED <<qDoc, cacheVars, providerVars, serverVars, storageVars, factoryVars, mappingVars, resizeVars>>

(***************************************************************************)
(* The document server (src/src/server.ts): DocumentManager and the tools  *)
(* add_document, get_document, list_documents, search_documents and        *)
(* delete_document.  server.ts hands chunking to IntelligentChunker; the   *)
(* chunker modelled here is DocumentManager.createChunks of the server's   *)
(* previous version (src/unnamed/part_003), which addDocument awaits at    *)
(* the same place.  A tool call is a sequence of steps, one per await, and *)
(* the steps of different calls interleave.                                *)
(***************************************************************************)

\* ids Math.random().toString(36).substr(2, 9) may return; nothing in
\* generateId looks at the ids that are in use
Ids == {"d1", "d2"}

Titles == {"guide"}

\* "a." makes one chunk, "abc. de. f" makes two
Contents == {<<"a", ".">>, <<"a", "b", "c", ".", " ", "d", "e", ".", " ", "f">>}

IsTerminator(c) == c \in {".", "!", "?"}

RECURSIVE dropTerminators(_)
dropTerminators(t) == IF t # <<>> /\ IsTerminator(Head(t)) THEN dropTerminators(Tail(t)) ELSE t

\* String.prototype.split(/[.!?]+/)
RECURSIVE split(_, _)
split(t, piece) ==
    IF t = <<>> THEN <<piece>>
    ELSE IF IsTerminator(Head(t)) THEN <<piece>> \o split(dropTerminators(Tail(t)), <<>>)
    ELSE split(Tail(t), Append(piece, Head(t)))

\* filter(s => s.trim().length > 0)
RECURSIVE filterNonBlank(_)
filterNonBlank(pieces) ==
    IF pieces = <<>> THEN <<>>
    ELSE IF Len(trim(Head(pieces))) > 0 THEN <<Head(pieces)>> \o filterNonBlank(Tail(pieces))
    ELSE filterNonBlank(Tail(pieces))

\* the chunk createChunks pushes for currentChunk; text is what it embeds
newChunk(currentChunk, chunkIndex, startPosition) ==
    [chunk_index |-> chunkIndex,
     text |-> currentChunk,
     content |-> trim(currentChunk),
     start_position |-> startPosition,
     end_position |-> startPosition + Len(currentChunk)]

\* the loop of createChunks over the sentences, and the last chunk
RECURSIVE chunkLoop(_, _, _, _)
chunkLoop(sentences, currentChunk, chunks, startPosition) ==
    IF sentences = <<>>
    THEN IF trim(currentChunk) # <<>>
         THEN Append(chunks, newChunk(currentChunk, Len(chunks), startPosition))
         ELSE chunks
    ELSE LET trimmedSentence == trim(Head(sentences))
         IN  IF trimmedSentence = <<>>
             THEN chunkLoop(Tail(sentences), currentChunk, chunks, startPosition)
             ELSE IF Len(currentChunk) + Len(trimmedSentence) > chunkSize /\ Len(currentChunk) > 0
             THEN chunkLoop(Tail(sentences), trimmedSentence \o <<".">>,
                            Append(chunks, newChunk(currentChunk, Len(chunks), startPosition)),
                            startPosition + Len(currentChunk))
             ELSE chunkLoop(Tail(sentences),
                            currentChunk \o (IF currentChunk # <<>> THEN <<" ">> ELSE <<>>)
                                         \o trimmedSentence \o <<".">>,
                            chunks, startPosition)

\* createChunks without the embeddings, which it awaits chunk by chunk
createChunks(content) == chunkLoop(filterNonBlank(split(content, <<>>)), <<>>, <<>>, 0)

\* the chunks as stored: with the embeddings the provider returned
embeddedChunks(content) ==
    LET chunks == createChunks(content)
    IN  [i \in 1..Len(chunks) |->
           [chunk_index |-> chunks[i].chunk_index,
            content |-> chunks[i].content,
            embeddings |-> ModelOutput(chunks[i].text),
            start_position |-> chunks[i].start_position,
            end_position |-> chunks[i].end_position]]

\* what readFile and JSON.parse make of a file that is missing or not valid JSON
Null == [valid |-> FALSE]

\* a file a failed writeFile left behind: it does not parse
partialFile == [valid |-> FALSE]

\* the document addDocument builds
newDocument(id, title, content) ==
    [valid |-> TRUE, id |-> id, title |-> title, content |-> content,
     chunks |-> embeddedChunks(content)]

\* DocumentManager.getDocument
getDocument(fs, id) == IF id \in DOMAIN fs /\ fs[id].valid THEN fs[id] ELSE Null

\* DocumentManager.getAllDocuments: the files that parse
getAllDocuments(fs) == {fs[id] : id \in {i \in DOMAIN fs : fs[i].valid}}

\* existsSync(documentPath)
existsSync(fs, id) == id \in DOMAIN fs

\* a faulty unlink, for comparison: it resolves and leaves the file
unlinkKeepsFile(fs, id) == fs

\* fs.unlink(documentPath)
unlink(fs, id) == MapDelete(fs, id)

\* a faulty addDocument, for comparison: it writes what it has when
\* createChunks rejects
addDocumentPersistsPartial(fs, req) ==
    MapSet(fs, req.id, partialFile)

\* addDocument when createChunks rejects: the await throws and writeFile is
\* never reached
addDocumentRejects(fs, req) == fs

InFlight == BagToSet(requests)

CanIssue == BagCardinality(requests) < MaxInFlight

\* a tool call starts, moves on to its next await, or returns
started(reqs, req) == reqs (+) SetToBag({req})

finished(reqs, req) == reqs (-) SetToBag({req})

resumed(reqs, req, next) == (reqs (-) SetToBag({req})) (+) SetToBag({next})

ServerInit ==
    /\ files = EmptyMap
    /\ requests = EmptyBag
    /\ lastRes = [op |-> "none"]
    /\ deleted = {}

\* the data directories process_uploads is run on: empty, and after one or two
\* add_document calls with the title "guide"
StoredBefore ==
    {EmptyMap,
     MapSet(EmptyMap, "d1", newDocument("d1", "guide", <<"a", ".">>)),
     MapSet(MapSet(EmptyMap, "d1", newDocument("d1", "guide", <<"a", ".">>)),
            "d2", newDocument("d2", "guide", <<"a", ".">>))}

\* a server started on the data directory fs
ServerHolding(fs) ==
    /\ files = fs
    /\ requests = EmptyBag
    /\ lastRes = [op |-> "none"]
    /\ deleted = {}

\* add_document: generateId, and createChunks up to its first await
AddStart(id, title, content) ==
    /\ CanIssue
    /\ requests' = started(requests,
                          [op |-> "add", id |-> id, title |-> title, content |-> content,
                           embedded |-> 0,
                           pc |-> IF createChunks(content) = <<>> THEN "write" ELSE "embed"])
    /\ UNCHANGED <<files, lastRes, deleted>>

\* generateEmbedding(currentChunk) resolves
AddEmbedded(req) ==
    /\ req \in InFlight
    /\ req.op = "add"
    /\ req.pc = "embed"
    /\ LET done == req.embedded + 1
       IN  requests' = resumed(requests, req,
                              [req EXCEPT !.embedded = done,
                                          !.pc = IF done = Len(createChunks(req.content))
                                                 THEN "write" ELSE "embed"])
    /\ UNCHANGED <<files, lastRes, deleted>>

\* generateEmbedding(currentChunk) rejects: createChunks, addDocument and the
\* tool reject in turn
AddEmbedFails(req) ==
    /\ req \in InFlight
    /\ req.op = "add"
    /\ req.pc = "embed"
    /\ files' = addDocumentRejects(files, req)
    /\ requests' = finished(requests, req)
    /\ lastRes' = [op |-> "add", id |-> req.id, outcome |-> "error",
                   embedded |-> req.embedded]
    /\ UNCHANGED deleted

\* writeFile(documentPath, JSON.stringify(document)) succeeds
AddWrites(req) ==
    /\ req \in InFlight
    /\ req.op = "add"
    /\ req.pc = "write"
    /\ LET id == req.id
       IN  /\ files' = MapSet(files, req.id, newDocument(req.id, req.title, req.content))
           /\ deleted' = deleted \ {req.id}
           /\ lastRes' = [op |-> "add", id |-> req.id, outcome |-> "added"]
    /\ requests' = finished(requests, req)

\* writeFile fails, before it opened the file or after it truncated it
AddWriteFails(req) ==
    /\ req \in InFlight
    /\ req.op = "add"
    /\ req.pc = "write"
    /\ LET id == req.id
       IN  /\ files' \in {files, MapSet(files, req.id, partialFile)}
           /\ lastRes' = [op |-> "add", id |-> req.id, outcome |-> "writeError"]
    /\ requests' = finished(requests, req)
    /\ UNCHANGED deleted

\* delete_document: manager.getDocument(id)
DeleteStart(id) ==
    /\ CanIssue
    /\ IF getDocument(files, id) = Null
       THEN /\ lastRes' = [op |-> "delete", id |-> id, outcome |-> "notFound"]
            /\ UNCHANGED requests
       ELSE /\ requests' = started(requests,
                                  [op |-> "delete", id |-> id, pc |-> "exists"])
            /\ UNCHANGED lastRes
    /\ UNCHANGED <<files, deleted>>

\* deleteDocument: existsSync(documentPath)
DeleteExists(req) ==
    /\ req \in InFlight
    /\ req.op = "delete"
    /\ req.pc = "exists"
    /\ IF existsSync(files, req.id)
       THEN /\ requests' = resumed(requests, req, [req EXCEPT !.pc = "unlink"])
            /\ UNCHANGED lastRes
       ELSE /\ requests' = finished(requests, req)
            /\ lastRes' = [op |-> "delete", id |-> req.id,
                           outcome |-> "notFoundOrDeleted"]
    /\ UNCHANGED <<files, deleted>>

\* deleteDocument: fs.unlink(documentPath) and return true; unlink of a file
\* that is gone rejects
DeleteUnlinks(req) ==
    /\ req \in InFlight
    /\ req.op = "delete"
    /\ req.pc = "unlink"
    /\ LET id == req.id
       IN  IF existsSync(files, id)
           THEN /\ files' = unlink(files, id)
                /\ deleted' = deleted \cup {id}
                /\ lastRes' = [op |-> "delete", id |-> id, outcome |-> "deleted"]
           ELSE /\ lastRes' = [op |-> "delete", id |-> id, outcome |-> "error"]
                /\ UNCHANGED <<files, deleted>>
    /\ requests' = finished(requests, req)

\* fs.unlink rejects on a file that is there (permissions, I/O)
DeleteUnlinkFails(req) ==
    /\ req \in InFlight
    /\ req.op = "delete"
    /\ req.pc = "unlink"
    /\ requests' = finished(requests, req)
    /\ lastRes' = [op |-> "delete", id |-> req.id, outcome |-> "error"]
    /\ UNCHANGED <<files, deleted>>

\* get_document: getOnlyContentDocument(id)
GetDocument(id) ==
    /\ lastRes' = [op |-> "get", id |-> id,
                   outcome |-> IF getDocument(files, id) = Null THEN "notFound" ELSE "found"]
    /\ UNCHANGED <<files, requests, deleted>>

\* list_documents: getAllDocuments()
ListDocuments ==
    /\ lastRes' = [op |-> "list", ids |-> {d.id : d \in getAllDocuments(files)}]
    /\ UNCHANGED <<files, requests, deleted>>

\* search_documents: manager.getDocument(document_id), then searchDocuments
\* up to its await of generateEmbedding(query)
SearchStart(id) ==
    /\ CanIssue
    /\ IF getDocument(files, id) = Null
       THEN /\ lastRes' = [op |-> "search", id |-> id, outcome |-> "notFound",
                           afterDelete |-> id \in deleted]
            /\ UNCHANGED requests
       ELSE /\ requests' = started(requests,
                                  [op |-> "search", id |-> id, pc |-> "embedQuery",
                                   afterDelete |-> id \in deleted])
            /\ UNCHANGED lastRes
    /\ UNCHANGED <<files, deleted>>

\* searchDocuments once the query is embedded: getDocument again, rank
SearchFinish(req, queryEmbedding) ==
    /\ req \in InFlight
    /\ req.op = "search"
    /\ LET document == getDocument(files, req.id)
       IN  \E results \in (IF document = Null THEN {<<>>}
                           ELSE searchDocuments(document.chunks, queryEmbedding, 10)) :
              lastRes' = [op |-> "search", id |-> req.id,
                          outcome |-> IF Len(results) = 0 THEN "noChunks" ELSE "results",
                          afterDelete |-> req.afterDelete]
    /\ requests' = finished(requests, req)
    /\ UNCHANGED <<files, deleted>>

\* generateEmbedding(query) rejects
SearchEmbedFails(req) ==
    /\ req \in InFlight
    /\ req.op = "search"
    /\ lastRes' = [op |-> "search", id |-> req.id, outcome |-> "error",
                   afterDelete |-> req.afterDelete]
    /\ requests' = finished(requests, req)
    /\ UNCHANGED <<files, deleted>>

\* files of the uploads folder: base name, extension as matched by the glob
\* pattern, and text
guideTxt == [name |-> "guide", ext |-> ".txt", content |-> <<"a", ".">>]

notesMd == [name |-> "notes", ext |-> ".md", content |-> <<"a", ".">>]

blankTxt == [name |-> "blank", ext |-> ".txt", content |-> <<" ">>]

\* what glob(uploadsDir + "/*{.txt,.md,.pdf}") returns, in its order
UploadFolders == {<<guideTxt>>, <<guideTxt, notesMd>>, <<blankTxt, guideTxt>>}

\* what generateId returns to the addDocument calls of process_uploads
UploadIds == Ids \cup {"d3"}

\* path.basename(fileName, fileExtension)
basename(file) == file.name

\* findDocumentByTitle: documents.find over getAllDocuments(), whose order is
\* that of the directory listing; Null when no title matches
findDocumentByTitle(fs, title) ==
    IF \E d \in getAllDocuments(fs) : d.title = title
    THEN {d \in getAllDocuments(fs) : d.title = title}
    ELSE {Null}

\* removeDocument: existsSync and unlink, whose failure is swallowed
removeDocument(fs, id) ==
    IF existsSync(fs, id) THEN {unlink(fs, id), fs} ELSE {fs}

\* process_uploads, called while no other tool call is in flight:
\* processUploadsFolder up to the glob's result
ProcessStart(folder) ==
    /\ requests = EmptyBag
    /\ requests' = started(requests,
                          [op |-> "process", remaining |-> folder, processed |-> 0,
                           counted |-> {}, errors |-> 0, created |-> {},
                           failed |-> {}, found |-> Len(folder),
                           prior |-> {[id |-> d.id, title |-> d.title] :
                                         d \in getAllDocuments(files)}])
    /\ UNCHANGED <<files, lastRes, deleted>>

\* processUploadsFolder: one turn of the loop over the files. A blank file
\* is an error; otherwise the document found by title is removed and
\* addDocument is called, which adds the document under the id generateId
\* returns, or rejects on the embedding or on the write
ProcessFile(req, id) ==
    /\ req \in InFlight
    /\ req.op = "process"
    /\ req.remaining # <<>>
    /\ LET file == Head(req.remaining)
           title == basename(file)
           next == [req EXCEPT !.remaining = Tail(req.remaining)]
       IN  IF trim(file.content) = <<>>
           THEN /\ requests' = resumed(requests, req, [next EXCEPT !.errors = @ + 1])
                /\ UNCHANGED <<files, deleted>>
           ELSE \E existingDoc \in findDocumentByTitle(files, title) :
                \E removed \in (IF existingDoc # Null
                                THEN removeDocument(files, existingDoc.id)
                                ELSE {files}) :
                \E added \in {"added", "embedError", "writeError"} :
                   IF added = "added"
                   THEN /\ files' = MapSet(removed, id, newDocument(id, title, file.content))
                        /\ deleted' = deleted \ {id}
                        /\ requests' = resumed(requests, req,
                                               [next EXCEPT !.processed = @ + 1,
                                                            !.counted = @ \cup {title},
                                                            !.created = @ \cup {id}])
                   ELSE /\ files' \in (IF added = "writeError"
                                       THEN {removed, MapSet(removed, id, partialFile)}
                                       ELSE {removed})
                        /\ requests' = resumed(requests, req,
                                               [next EXCEPT !.errors = @ + 1,
                                                            !.failed = @ \cup {title}])
                        /\ UNCHANGED deleted
    /\ UNCHANGED lastRes

\* processUploadsFolder returns { processed, errors }
ProcessReturns(req) ==
    /\ req \in InFlight
    /\ req.op = "process"
    /\ req.remaining = <<>>
    /\ requests' = finished(requests, req)
    /\ lastRes' = [op |-> "process", processed |-> req.processed, errors |-> req.errors,
                   counted |-> req.counted, created |-> req.created, prior |-> req.prior,
                   failed |-> req.failed, found |-> req.found]
    /\ UNCHANGED <<files, deleted>>

\* process_uploads calls that overlap: each await of processUploadsFolder is a
\* step, and the steps of the calls interleave. returned counts the calls of
\* the run that have returned
returnedCalls == IF lastRes.op = "process" THEN lastRes.returned ELSE 0

\* the folder a call that is in flight was started on
SameInbox(folder) ==
    \A req \in InFlight :
        /\ Len(folder) = req.found
        /\ req.remaining = SubSeq(folder, Len(folder) - Len(req.remaining) + 1, Len(folder))

\* processUploadsFolder up to the glob's result
OverlapStart(folder) ==
    /\ BagCardinality(requests) + returnedCalls < MaxInFlight
    /\ lastRes.op \in {"none", "process"}
    /\ \A req \in InFlight : req.op = "process"
    /\ SameInbox(folder)
    /\ requests' = started(requests,
                          [op |-> "process", remaining |-> folder, found |-> Len(folder),
                           pc |-> "read", existingDoc |-> "", processed |-> 0,
                           errors |-> 0, counted |-> {},
                           overlapped |-> requests # EmptyBag])
    /\ UNCHANGED <<files, lastRes, deleted>>

\* readFile, the blank test, and findDocumentByTitle
OverlapFind(req) ==
    /\ req \in InFlight
    /\ req.op = "process"
    /\ req.remaining # <<>>
    /\ req.pc = "read"
    /\ LET file == Head(req.remaining)
       IN  IF trim(file.content) = <<>>
           THEN requests' = resumed(requests, req,
                                    [req EXCEPT !.remaining = Tail(@), !.errors = @ + 1])
           ELSE \E existingDoc \in findDocumentByTitle(files, basename(file)) :
                   requests' = resumed(requests, req,
                       IF existingDoc = Null
                       THEN [req EXCEPT !.pc = "add"]
                       ELSE [req EXCEPT !.pc = "remove", !.existingDoc = existingDoc.id])
    /\ UNCHANGED <<files, lastRes, deleted>>

\* removeDocument(existingDoc.id)
OverlapRemove(req) ==
    /\ req \in InFlight
    /\ req.op = "process"
    /\ req.pc = "remove"
    /\ files' \in removeDocument(files, req.existingDoc)
    /\ requests' = resumed(requests, req, [req EXCEPT !.pc = "add", !.existingDoc = ""])
    /\ UNCHANGED <<lastRes, deleted>>

\* addDocument under the id generateId returns, or its rejection
OverlapAdd(req, id) ==
    /\ req \in InFlight
    /\ req.op = "process"
    /\ req.pc = "add"
    /\ LET file == Head(req.remaining)
           title == basename(file)
           next == [req EXCEPT !.remaining = Tail(@), !.pc = "read"]
       IN  \E added \in {"added", "embedError", "writeError"} :
              IF added = "added"
              THEN /\ files' = MapSet(files, id, newDocument(id, title, file.content))
                   /\ deleted' = deleted \ {id}
                   /\ requests' = resumed(requests, req,
                                          [next EXCEPT !.processed = @ + 1,
                                                       !.counted = @ \cup {title}])
              ELSE /\ files' \in (IF added = "writeError"
                                  THEN {files, MapSet(files, id, partialFile)}
                                  ELSE {files})
                   /\ requests' = resumed(requests, req, [next EXCEPT !.errors = @ + 1])
                   /\ UNCHANGED deleted
    /\ UNCHANGED lastRes

\* processUploadsFolder returns { processed, errors }
OverlapReturn(req) ==
    /\ req \in InFlight
    /\ req.op = "process"
    /\ req.remaining = <<>>
    /\ requests' = finished(requests, req)
    /\ lastRes' = [op |-> "process", returned |-> returnedCalls + 1,
                   processed |-> req.processed, errors |-> req.errors,
                   counted |-> req.counted \cup
                               (IF lastRes.op = "process" THEN lastRes.counted ELSE {}),
                   overlapped |-> req.overlapped \/
                                  (lastRes.op = "process" /\ lastRes.overlapped)]
    /\ UNCHANGED <<files, deleted>>

OverlappingUploadsStart ==
    /\ \E folder \in UploadFolders : OverlapStart(folder)
    /\ UNCHANGED <<cacheVars, providerVars, queryVars, storageVars, factoryVars, mappingVars, resizeVars>>

OverlappingUploadFinds ==
    /\ \E req \in InFlight : OverlapFind(req)
    /\ UNCHANGED <<cacheVars, providerVars, queryVars, storageVars, factoryVars, mappingVars, resizeVars>>

OverlappingUploadRemoves ==
    /\ \E req \in InFlight : OverlapRemove(req)
    /\ UNCHANGED <<cacheVars, providerVars, queryVars, storageVars, factoryVars, mappingVars, resizeVars>>

OverlappingUploadAdds ==
    /\ \E req \in InFlight, id \in UploadIds : OverlapAdd(req, id)
    /\ UNCHANGED <<cacheVars, providerVars, queryVars, storageVars, factoryVars, mappingVars, resizeVars>>

OverlappingUploadsReturn ==
    /\ \E req \in InFlight : OverlapReturn(req)
    /\ UNCHANGED <<cacheVars, providerVars, queryVars, storageVars, factoryVars, mappingVars, resizeVars>>

ProcessUploadsStarts ==
    /\ \E folder \in UploadFolders : ProcessStart(folder)
    /\ UNCHANGED <<cacheVars, providerVars, queryVars, storageVars, factoryVars, mappingVars, resizeVars>>

ProcessUploadsFile ==
    /\ \E req \in InFlight, id \in UploadIds : ProcessFile(req, id)
    /\ UNCHANGED <<cacheVars, providerVars, queryVars, storageVars, factoryVars, mappingVars, resizeVars>>

ProcessUploadsReturns ==
    /\ \E req \in InFlight : ProcessReturns(req)
    /\ UNCHANGED <<cacheVars, providerVars, queryVars, storageVars, factoryVars, mappingVars, resizeVars>>

AddDocumentStarts ==
    /\ \E id \in Ids, title \in Titles, content \in Contents : AddStart(id, title, content)
    /\ UNCHANGED <<cacheVars, providerVars, queryVars, storageVars, factoryVars, mappingVars, resizeVars>>

\* strings the schema z.string() of the add_document tool admits: the empty
\* string and a text without sentence terminator among them
AnyContents == Contents \cup {<<>>, <<"a">>}

\* add_document with any string the tool's schema admits
AddAnyDocumentStarts ==
    /\ \E id \in Ids, title \in Titles, content \in AnyContents :
         AddStart(id, title, content)
    /\ UNCHANGED <<cacheVars, providerVars, queryVars, storageVars, factoryVars, mappingVars, resizeVars>>

ChunkEmbedded ==
    /\ \E req \in InFlight : AddEmbedded(req)
    /\ UNCHANGED <<cacheVars, providerVars, queryVars, storageVars, factoryVars, mappingVars, resizeVars>>

ChunkEmbeddingFails ==
    /\ \E req \in InFlight : AddEmbedFails(req)
    /\ UNCHANGED <<cacheVars, providerVars, queryVars, storageVars, factoryVars, mappingVars, resizeVars>>

DocumentWritten ==
    /\ \E req \in InFlight : AddWrites(req)
    /\ UNCHANGED <<cacheVars, providerVars, queryVars, storageVars, factoryVars, mappingVars, resizeVars>>

DocumentWriteFails ==
    /\ \E req \in InFlight : AddWriteFails(req)
    /\ UNCHANGED <<cacheVars, providerVars, queryVars, storageVars, factoryVars, mappingVars, resizeVars>>

DeleteDocumentStarts ==
    /\ \E id \in Ids : DeleteStart(id)
    /\ UNCHANGED <<cacheVars, providerVars, queryVars, storageVars, factoryVars, mappingVars, resizeVars>>

DeleteChecksFile ==
    /\ \E req \in InFlight : DeleteExists(req)
    /\ UNCHANGED <<cacheVars, providerVars, queryVars, storageVars, factoryVars, mappingVars, resizeVars>>

DeleteRemovesFile ==
    /\ \E req \in InFlight : DeleteUnlinks(req)
    /\ UNCHANGED <<cacheVars, providerVars, queryVars, storageVars, factoryVars, mappingVars, resizeVars>>

DeleteRemovalFails ==
    /\ \E req \in InFlight : DeleteUnlinkFails(req)
    /\ UNCHANGED <<cacheVars, providerVars, queryVars, storageVars, factoryVars, mappingVars, resizeVars>>

GetDocumentTool ==
    /\ \E id \in Ids : GetDocument(id)
    /\ UNCHANGED <<cacheVars, providerVars, queryVars, storageVars, factoryVars, mappingVars, resizeVars>>

ListDocumentsTool ==
    /\ ListDocuments
    /\ UNCHANGED <<cacheVars, providerVars, queryVars, storageVars, factoryVars, mappingVars, resizeVars>>

SearchDocumentsStarts ==
    /\ \E id \in Ids : SearchStart(id)
    /\ UNCHANGED <<cacheVars, providerVars, queryVars, storageVars, factoryVars, mappingVars, resizeVars>>

SearchDocumentsFinishes ==
    /\ \E req \in InFlight : SearchFinish(req, <<1, 0>>)
    /\ UNCHANGED <<cacheVars, providerVars, queryVars, storageVars, factoryVars, mappingVars, resizeVars>>

SearchQueryEmbeddingFails ==
    /\ \E req \in InFlight : SearchEmbedFails(req)
    /\ UNCHANGED <<cacheVars, providerVars, queryVars, storageVars, factoryVars, mappingVars, resizeVars>>

(***************************************************************************)
(* The file storage (src/src/document-manager.ts): FileDocumentStorage     *)
(* keeps one JSON file per document, one per embedding, and an index, the  *)
(* metadata map, which it rewrites to metadata.json after every change.    *)
(* save and delete are sequences of file operations; each may fail, and    *)
(* the steps of different calls interleave at the awaits.                  *)
(***************************************************************************)

\* FileDocumentStorage.load: null when the document file is missing
load(docs, id) == IF id \in DOMAIN docs THEN [valid |-> TRUE, id |-> id, title |-> docs[id]] ELSE Null

\* FileDocumentStorage.list
list(meta) == DOMAIN meta

StorageInit ==
    /\ documents = EmptyMap
    /\ embeddings = {}
    /\ metadata = EmptyMap
    /\ metadataFile = EmptyMap
    /\ metadataFileState = "missing"
    /\ operations = EmptyBag
    /\ outcome = [op |-> "none"]

CanCall == BagCardinality(operations) < MaxInFlight

\* save and delete change the map and call saveMetadata in one synchronous
\* stretch: writeJsonSync writes the whole map, or throws and leaves
\* metadata.json as it was
UpdateIndex(op, meta, written, result) ==
    /\ metadata' = meta
    /\ metadataFile' = IF written THEN meta ELSE metadataFile
    /\ metadataFileState' = IF written THEN "ok" ELSE metadataFileState
    /\ operations' = finished(operations, op)
    /\ outcome' = [op |-> op.op, id |-> op.id, existed |-> op.existed,
                   failed |-> ~written, result |-> result]

\* an operation ends at a file operation that failed
Fail(op, result) ==
    /\ operations' = finished(operations, op)
    /\ outcome' = [op |-> op.op, id |-> op.id, existed |-> op.existed,
                   failed |-> TRUE, result |-> result]

\* save(document) up to its await of writeJson(documentPath)
SaveStart(id, title, hasEmbedding) ==
    /\ CanCall
    /\ operations' = started(operations,
                             [op |-> "save", id |-> id, title |-> title,
                              embedding |-> hasEmbedding, pc |-> "writeDocument",
                              existed |-> id \in DOMAIN documents \/ id \in DOMAIN metadata])
    /\ UNCHANGED <<documents, embeddings, metadata, metadataFile, metadataFileState, outcome>>

\* the document file is written; without an embedding save goes on to the index
SaveDocumentWritten(op, indexWritten) ==
    /\ op \in BagToSet(operations)
    /\ op.op = "save"
    /\ op.pc = "writeDocument"
    /\ documents' = MapSet(documents, op.id, op.title)
    /\ IF op.embedding
       THEN /\ operations' = resumed(operations, op, [op EXCEPT !.pc = "writeEmbedding"])
            /\ UNCHANGED <<metadata, metadataFile, metadataFileState, outcome>>
       ELSE UpdateIndex(op, MapSet(metadata, op.id, op.title), indexWritten,
                        IF indexWritten THEN "returns" ELSE "throws")
    /\ UNCHANGED embeddings

\* the embedding file is written, then the index
SaveEmbeddingWritten(op, indexWritten) ==
    /\ op \in BagToSet(operations)
    /\ op.op = "save"
    /\ op.pc = "writeEmbedding"
    /\ embeddings' = embeddings \cup {op.id}
    /\ UpdateIndex(op, MapSet(metadata, op.id, op.title), indexWritten,
                   IF indexWritten THEN "returns" ELSE "throws")
    /\ UNCHANGED documents

\* writeJson rejects: save logs and rethrows
SaveWriteFails(op) ==
    /\ op \in BagToSet(operations)
    /\ op.op = "save"
    /\ Fail(op, "throws")
    /\ UNCHANGED <<documents, embeddings, metadata, metadataFile, metadataFileState>>

\* delete(id) up to its await of fs.remove(documentPath)
DeleteCall(id) ==
    /\ CanCall
    /\ operations' = started(operations,
                             [op |-> "delete", id |-> id, pc |-> "removeDocument",
                              existed |-> id \in DOMAIN documents \/ id \in DOMAIN metadata])
    /\ UNCHANGED <<documents, embeddings, metadata, metadataFile, metadataFileState, outcome>>

\* fs.remove(documentPath) resolves, also when there was no such file
DeleteDocumentRemoved(op) ==
    /\ op \in BagToSet(operations)
    /\ op.op = "delete"
    /\ op.pc = "removeDocument"
    /\ documents' = MapDelete(documents, op.id)
    /\ operations' = resumed(operations, op, [op EXCEPT !.pc = "pathExists"])
    /\ UNCHANGED <<embeddings, metadata, metadataFile, metadataFileState, outcome>>

\* fs.pathExists(embeddingPath) resolves: without an embedding file delete
\* goes on to the index
DeleteEmbeddingChecked(op, indexWritten) ==
    /\ op \in BagToSet(operations)
    /\ op.op = "delete"
    /\ op.pc = "pathExists"
    /\ IF op.id \in embeddings
       THEN /\ operations' = resumed(operations, op, [op EXCEPT !.pc = "removeEmbedding"])
            /\ UNCHANGED <<metadata, metadataFile, metadataFileState, outcome>>
       ELSE UpdateIndex(op, MapDelete(metadata, op.id), indexWritten,
                        IF indexWritten THEN "true" ELSE "false")
    /\ UNCHANGED <<documents, embeddings>>

\* fs.remove(embeddingPath) resolves, then the index
DeleteEmbeddingRemoved(op, indexWritten) ==
    /\ op \in BagToSet(operations)
    /\ op.op = "delete"
    /\ op.pc = "removeEmbedding"
    /\ embeddings' = embeddings \ {op.id}
    /\ UpdateIndex(op, MapDelete(metadata, op.id), indexWritten,
                   IF indexWritten THEN "true" ELSE "false")
    /\ UNCHANGED documents

\* fs.remove rejects: delete logs and returns false
DeleteRemoveFails(op) ==
    /\ op \in BagToSet(operations)
    /\ op.op = "delete"
    /\ op.pc \in {"removeDocument", "removeEmbedding"}
    /\ Fail(op, "false")
    /\ UNCHANGED <<documents, embeddings, metadata, metadataFile, metadataFileState>>

\* loadMetadata: the entries of metadata.json; the map stays empty when the
\* file is missing, and is reset to an empty map when reading it throws
loadMetadata(fileState, entries) == IF fileState = "ok" THEN entries ELSE EmptyMap

\* a new process constructs FileDocumentStorage: ensureDirectories, loadMetadata
Restart ==
    /\ operations = EmptyBag
    /\ metadata' = loadMetadata(metadataFileState, metadataFile)
    /\ outcome' = [op |-> "construct", file |-> metadataFileState, result |-> "returns"]
    /\ UNCHANGED <<documents, embeddings, metadataFile, metadataFileState, operations>>

\* while no process runs, metadata.json is deleted, truncated to zero bytes
\* or overwritten with text that is not JSON
MetadataFileDamaged(how) ==
    /\ operations = EmptyBag
    /\ metadataFileState = "ok"
    /\ metadataFile' = EmptyMap
    /\ metadataFileState' = how
    /\ outcome' = [op |-> "none"]
    /\ UNCHANGED <<documents, embeddings, metadata, operations>>

\* FileDocumentStorage.search: the ids whose documents it scores, those in the
\* map whose document loads with an embedding
searchable(meta, docs, embs) == {id \in DOMAIN meta : load(docs, id) # Null /\ id \in embs}

SaveStarts ==
    /\ \E id \in Ids, title \in Titles, hasEmbedding \in BOOLEAN : SaveStart(id, title, hasEmbedding)
    /\ UNCHANGED <<cacheVars, providerVars, queryVars, serverVars, factoryVars, mappingVars, resizeVars>>

SaveWritesDocument ==
    /\ \E op \in BagToSet(operations), indexWritten \in BOOLEAN : SaveDocumentWritten(op, indexWritten)
    /\ UNCHANGED <<cacheVars, providerVars, queryVars, serverVars, factoryVars, mappingVars, resizeVars>>

SaveWritesEmbedding ==
    /\ \E op \in BagToSet(operations), indexWritten \in BOOLEAN : SaveEmbeddingWritten(op, indexWritten)
    /\ UNCHANGED <<cacheVars, providerVars, queryVars, serverVars, factoryVars, mappingVars, resizeVars>>

SaveFails ==
    /\ \E op \in BagToSet(operations) : SaveWriteFails(op)
    /\ UNCHANGED <<cacheVars, providerVars, queryVars, serverVars, factoryVars, mappingVars, resizeVars>>

DeleteStarts ==
    /\ \E id \in Ids : DeleteCall(id)
    /\ UNCHANGED <<cacheVars, providerVars, queryVars, serverVars, factoryVars, mappingVars, resizeVars>>

DeleteRemovesDocument ==
    /\ \E op \in BagToSet(operations) : DeleteDocumentRemoved(op)
    /\ UNCHANGED <<cacheVars, providerVars, queryVars, serverVars, factoryVars, mappingVars, resizeVars>>

DeleteChecksEmbedding ==
    /\ \E op \in BagToSet(operations), indexWritten \in BOOLEAN : DeleteEmbeddingChecked(op, indexWritten)
    /\ UNCHANGED <<cacheVars, providerVars, queryVars, serverVars, factoryVars, mappingVars, resizeVars>>

DeleteRemovesEmbedding ==
    /\ \E op \in BagToSet(operations), indexWritten \in BOOLEAN : DeleteEmbeddingRemoved(op, indexWritten)
    /\ UNCHANGED <<cacheVars, providerVars, queryVars, serverVars, factoryVars, mappingVars, resizeVars>>

DeleteFails ==
    /\ \E op \in BagToSet(operations) : DeleteRemoveFails(op)
    /\ UNCHANGED <<cacheVars, providerVars, queryVars, serverVars, factoryVars, mappingVars, resizeVars>>

StorageRestarts ==
    /\ Restart
    /\ UNCHANGED <<cacheVars, providerVars, queryVars, serverVars, factoryVars, mappingVars, resizeVars>>

MetadataFileLost ==
    /\ \E how \in {"missing", "empty", "corrupt"} : MetadataFileDamaged(how)
    /\ UNCHANGED <<cacheVars, providerVars, queryVars, serverVars, factoryVars, mappingVars, resizeVars>>

(***************************************************************************)
(* The provider factory (src/src/embedding-provider.ts):                   *)
(* createEmbeddingProvider tries the models of modelsToTry in turn, each   *)
(* with a test embedding raced against a timeout, and falls back to a      *)
(* SimpleEmbeddingProvider when none of them works.                        *)
(***************************************************************************)
MaxProviders == 2

defaultModel == "Xenova/all-MiniLM-L6-v2"

fallbackModel == "Xenova/paraphrase-multilingual-mpnet-base-v2"

\* the arguments of createEmbeddingProvider; "" stands for a call without a
\* model name: undefined and the empty string are both falsy
RequestedModels == ModelNames \cup {""}

modelsToTry(name) ==
    IF name # "" THEN <<name, fallbackModel>> ELSE <<fallbackModel, defaultModel>>

\* a TransformersEmbeddingProvider whose test embedding succeeded
TransformersEmbeddingProvider(model) ==
    [kind |-> "transformers", modelName |-> model,
     dimensions |-> getModelDimensions(model), isAvailable |-> TRUE]

SimpleEmbeddingProvider(dimension) ==
    [kind |-> "simple", modelName |-> "Simple Hash-based Embeddings",
     dimensions |-> dimension, isAvailable |-> TRUE]

\* the final fallback: the dimensions of the last model of the list
simpleFallback(name) ==
    LET models == modelsToTry(name)
        lastTriedModel == models[Len(models)]
    IN  SimpleEmbeddingProvider(getModelDimensions(lastTriedModel))

FactoryIdle ==
    /\ factory = [pc |-> "idle"]
    /\ created = <<>>

\* the call returns: its promise resolves to provider
resolveWith(provider) ==
    /\ created' = Append(created, [requested |-> factory.requested,
                                   failures |-> factory.failures,
                                   provider |-> provider])
    /\ factory' = [pc |-> "idle"]

\* createEmbeddingProvider(name) is called and constructs the first provider
CreateStart(name) ==
    /\ factory.pc = "idle"
    /\ Len(created) < MaxProviders
    /\ factory' = [pc |-> "loading", requested |-> name, index |-> 1, failures |-> <<>>]
    /\ UNCHANGED created

\* the model of the provider under test loads; its pipeline runs on 'test'
TestLoaded ==
    /\ factory.pc = "loading"
    /\ factory' = [factory EXCEPT !.pc = "embedding"]
    /\ UNCHANGED created

\* the test embedding comes back: the provider under test is returned
TestSucceeded ==
    /\ factory.pc = "embedding"
    /\ resolveWith(TransformersEmbeddingProvider(modelsToTry(factory.requested)[factory.index]))

\* the race is lost: the load or the pipeline failed, or the timeout fired.
\* The catch block ends the loop when the model is the one the list ends with
TestFailed(why) ==
    /\ factory.pc \in {"loading", "embedding"}
    /\ why = "pipeline" => factory.pc = "embedding"
    /\ why = "load" => factory.pc = "loading"
    /\ LET models == modelsToTry(factory.requested)
           model == models[factory.index]
           failed == [factory EXCEPT !.failures = Append(@, why)]
       IN  IF model = models[Len(models)] \/ factory.index = Len(models)
           THEN /\ created' = Append(created, [requested |-> factory.requested,
                                               failures |-> failed.failures,
                                               provider |-> simpleFallback(factory.requested)])
                /\ factory' = [pc |-> "idle"]
           ELSE /\ factory' = [failed EXCEPT !.pc = "loading", !.index = @ + 1]
                /\ UNCHANGED created

CreateProviderStarts ==
    /\ \E name \in RequestedModels : CreateStart(name)
    /\ UNCHANGED <<cacheVars, providerVars, queryVars, serverVars, storageVars, mappingVars, resizeVars>>

ModelLoads ==
    /\ TestLoaded
    /\ UNCHANGED <<cacheVars, providerVars, queryVars, serverVars, storageVars, mappingVars, resizeVars>>

TestEmbeddingReturns ==
    /\ TestSucceeded
    /\ UNCHANGED <<cacheVars, providerVars, queryVars, serverVars, storageVars, mappingVars, resizeVars>>

TestEmbeddingFails ==
    /\ \E why \in {"load", "pipeline", "timeout"} : TestFailed(why)
    /\ UNCHANGED <<cacheVars, providerVars, queryVars, serverVars, storageVars, mappingVars, resizeVars>>

(***************************************************************************)
(* The Gemini file mappings (src/src/gemini-file-mapping-service.ts):      *)
(* initialize starts loadMappings without awaiting it, and addMapping      *)
(* changes the table and awaits saveMappings.  A step is the stretch of    *)
(* code between two awaits; the file system completes reads and writes in  *)
(* any order.                                                              *)
(***************************************************************************)
MaxMappings == 2

GeminiFileIds == {"g1", "g2"}

\* gemini_file_mappings.json as earlier runs of the server left it
MappingFilesBefore ==
    {[exists |-> FALSE, data |-> EmptyMap],
     [exists |-> TRUE, data |-> MapSet(EmptyMap, "d1", "g1")]}

MappingIdle ==
    /\ mappingFile = [exists |-> FALSE, data |-> EmptyMap]
    /\ mappingData = EmptyMap
    /\ mappingOps = EmptyBag
    /\ mappingLog = [initialized |-> FALSE]

MappingInit ==
    /\ mappingFile \in MappingFilesBefore
    /\ mappingData = EmptyMap
    /\ mappingOps = EmptyBag
    /\ mappingLog = [initialized |-> FALSE]

\* initialize(dataDir): loadMappings runs up to its readFile, or, without a
\* file, to its end
GeminiInitialize ==
    /\ ~mappingLog.initialized
    /\ mappingLog' = [initialized |-> TRUE, atInit |-> mappingFile.data, added |-> EmptyMap,
                      adds |-> 0, writeErrors |-> 0]
    /\ IF mappingFile.exists
       THEN /\ mappingOps' = started(mappingOps, [op |-> "load", pc |-> "readFile"])
            /\ UNCHANGED mappingData
       ELSE /\ mappingData' = EmptyMap
            /\ UNCHANGED mappingOps
    /\ UNCHANGED mappingFile

\* loadMappings: readFile has read the file
loadMappingsRead(op) ==
    /\ op \in BagToSet(mappingOps)
    /\ op.op = "load"
    /\ op.pc = "readFile"
    /\ mappingOps' = resumed(mappingOps, op, [op |-> "load", pc |-> "parse",
                                              data |-> mappingFile.data])
    /\ UNCHANGED <<mappingFile, mappingData, mappingLog>>

\* loadMappings resumes: this.mappingData = JSON.parse(data)
loadMappingsAssigns(op) ==
    /\ op \in BagToSet(mappingOps)
    /\ op.op = "load"
    /\ op.pc = "parse"
    /\ mappingData' = op.data
    /\ mappingOps' = finished(mappingOps, op)
    /\ UNCHANGED <<mappingFile, mappingLog>>

\* addMapping up to the writeFile of saveMappings, which gets the table as
\* JSON.stringify sees it now
addMapping(documentId, geminiFileId) ==
    /\ mappingLog.initialized
    /\ mappingLog.adds < MaxMappings
    /\ mappingData' = MapSet(mappingData, documentId, geminiFileId)
    /\ mappingOps' = started(mappingOps, [op |-> "save", pc |-> "writeFile",
                                          data |-> mappingData'])
    /\ mappingLog' = [mappingLog EXCEPT !.added = MapSet(@, documentId, geminiFileId),
                                        !.adds = @ + 1]
    /\ UNCHANGED mappingFile

\* saveMappings: writeFile has written the file
saveMappingsWritten(op) ==
    /\ op \in BagToSet(mappingOps)
    /\ op.op = "save"
    /\ mappingFile' = [exists |-> TRUE, data |-> op.data]
    /\ mappingOps' = finished(mappingOps, op)
    /\ UNCHANGED <<mappingData, mappingLog>>

\* saveMappings: writeFile rejects; the catch block logs the error
saveMappingsFails(op) ==
    /\ op \in BagToSet(mappingOps)
    /\ op.op = "save"
    /\ mappingOps' = finished(mappingOps, op)
    /\ mappingLog' = [mappingLog EXCEPT !.writeErrors = @ + 1]
    /\ UNCHANGED <<mappingFile, mappingData>>

MappingInitializes ==
    /\ GeminiInitialize
    /\ UNCHANGED <<cacheVars, providerVars, queryVars, serverVars, storageVars, factoryVars, resizeVars>>

MappingFileRead ==
    /\ \E op \in BagToSet(mappingOps) : loadMappingsRead(op)
    /\ UNCHANGED <<cacheVars, providerVars, queryVars, serverVars, storageVars, factoryVars, resizeVars>>

MappingsLoaded ==
    /\ \E op \in BagToSet(mappingOps) : loadMappingsAssigns(op)
    /\ UNCHANGED <<cacheVars, providerVars, queryVars, serverVars, storageVars, factoryVars, resizeVars>>

MappingAdded ==
    /\ \E documentId \in Ids, geminiFileId \in GeminiFileIds : addMapping(documentId, geminiFileId)
    /\ UNCHANGED <<cacheVars, providerVars, queryVars, serverVars, storageVars, factoryVars, resizeVars>>

MappingsSaved ==
    /\ \E op \in BagToSet(mappingOps) : saveMappingsWritten(op)
    /\ UNCHANGED <<cacheVars, providerVars, queryVars, serverVars, storageVars, factoryVars, resizeVars>>

MappingsSaveFails ==
    /\ \E op \in BagToSet(mappingOps) : saveMappingsFails(op)
    /\ UNCHANGED <<cacheVars, providerVars, queryVars, serverVars, storageVars, factoryVars, resizeVars>>

(***************************************************************************)
(* EmbeddingCache.resize, turn by turn of its while loop                   *)
(* (src/src/embeddings/embedding-cache.ts).  The call is synchronous: no   *)
(* other cache call runs before it has returned.                           *)
(***************************************************************************)
\* the sizes resize is called with, negative ones among them
NewSizes == (-1)..MaxCacheSize

ResizeIdle == resizing = [pc |-> "idle"]

\* resize(newSize): this.maxSize = newSize, up to the first test of the loop
resizeStart(newSize) ==
    /\ resizing.pc = "idle"
    /\ maxSize' = newSize
    /\ resizing' = [pc |-> "while", turn |-> 0]
    /\ cacheOp' = [kind |-> "resize", size |-> newSize]
    /\ UNCHANGED <<cache, accessOrder, keyOrder, hits, misses, now, touched, preloading>>

\* the test holds: evictLRU, which returns at once on an empty accessOrder.
\* turn is the parity of the number of turns taken
resizeTurn ==
    /\ resizing.pc = "while"
    /\ Cardinality(DOMAIN cache) > maxSize
    /\ cache' = evictLRU(cache, accessOrder).cache
    /\ accessOrder' = evictLRU(cache, accessOrder).accessOrder
    /\ keyOrder' = mapKeys(keyOrder, cache')
    /\ resizing' = [resizing EXCEPT !.turn = (@ + 1) % 2]
    /\ UNCHANGED <<maxSize, hits, misses, now, touched, cacheOp, preloading>>

\* the test fails: resize returns
resizeReturn ==
    /\ resizing.pc = "while"
    /\ ~(Cardinality(DOMAIN cache) > maxSize)
    /\ resizing' = [pc |-> "idle"]
    /\ UNCHANGED cacheVars

ResizeStarts ==
    /\ \E newSize \in NewSizes : resizeStart(newSize)
    /\ UNCHANGED <<providerVars, queryVars, serverVars, storageVars, factoryVars, mappingVars>>

ResizeEvicts ==
    /\ resizeTurn
    /\ UNCHANGED <<providerVars, queryVars, serverVars, storageVars, factoryVars, mappingVars>>

ResizeReturns ==
    /\ resizeReturn
    /\ UNCHANGED <<providerVars, queryVars, serverVars, storageVars, factoryVars, mappingVars>>

\* getEmbedding and setEmbedding run while no resize is running
GetBetweenResizes ==
    /\ resizing.pc = "idle"
    /\ CacheGet

SetBetweenResizes ==
    /\ resizing.pc = "idle"
    /\ CacheSet

(***************************************************************************)
(* Specifications                                                          *)
(***************************************************************************)
CacheNext == CacheGet \/ CacheSet

InitCache == (\E n \in 1..MaxCacheSize : CacheInit(n)) /\ ProviderIdle /\ QueryIdle /\ ServerInit /\ StorageInit
    /\ FactoryIdle
    /\ MappingIdle
    /\ ResizeIdle

SpecCache == InitCache /\ [][CacheNext]_vars

\* the cache with all the calls that change it
CacheAdminNext ==
    \/ CacheGet
    \/ CacheSet
    \/ CacheResize
    \/ CacheClear
    \/ CacheImport
    \/ CachePreload
    \/ CachePreloadNext

InitCacheAdmin ==
    /\ CacheInitAt(MaxCacheSize, MaxCacheOps - AdminCalls)
    /\ ProviderIdle /\ QueryIdle /\ ServerInit /\ StorageInit
    /\ FactoryIdle
    /\ MappingIdle
    /\ ResizeIdle

SpecCacheAdmin == InitCacheAdmin /\ [][CacheAdminNext]_vars

\* the cache with direct calls and exports that are imported again
RoundTripNext == CacheGet \/ CacheSet \/ CacheRoundTrip

InitRoundTrip ==
    /\ \E n \in 1..MaxCacheSize : CacheInit(n)
    /\ ProviderIdle /\ QueryIdle /\ ServerInit /\ StorageInit
    /\ FactoryIdle
    /\ MappingIdle
    /\ ResizeIdle

SpecRoundTrip == InitRoundTrip /\ [][RoundTripNext]_vars

\* the cache with direct calls and resize calls; a resize call that has
\* started goes on running
ResizeNext ==
    \/ GetBetweenResizes
    \/ SetBetweenResizes
    \/ ResizeStarts
    \/ ResizeEvicts
    \/ ResizeReturns

InitResize ==
    /\ CacheInit(MaxCacheSize)
    /\ ProviderIdle /\ QueryIdle /\ ServerInit /\ StorageInit
    /\ FactoryIdle
    /\ MappingIdle
    /\ ResizeIdle

ResizeFairness == WF_vars(ResizeEvicts) /\ WF_vars(ResizeReturns)

SpecResize == InitResize /\ [][ResizeNext]_vars

SpecResizeFair == SpecResize /\ ResizeFairness

ProviderNext ==
    \/ GenerateStarts
    \/ GenerateLooksUp
    \/ GenerateResumes
    \/ PipelineReturns
    \/ PipelineThrows
    \/ PreInitializeStarts
    \/ PreInitializeSettles
    \/ LoadResolves
    \/ LoadRejects

\* the provider constructs its cache with the configured capacity
InitProvider == CacheInit(MaxCacheSize) /\ ProviderInit /\ QueryIdle /\ ServerInit /\ StorageInit
    /\ FactoryIdle
    /\ MappingIdle
    /\ ResizeIdle

SpecProvider == InitProvider /\ [][ProviderNext]_vars

\* a provider with the cache enabled and MCP_CACHE_SIZE=1
CachedProviderNext ==
    \/ CachedGenerateStarts
    \/ GenerateLooksUp
    \/ GenerateResumes
    \/ PipelineReturns
    \/ PipelineThrows
    \/ LoadResolves
    \/ LoadRejects

InitCachedProvider ==
    /\ CacheInit(1)
    /\ ProviderInit /\ cacheOn
    /\ QueryIdle /\ ServerInit /\ StorageInit
    /\ FactoryIdle
    /\ MappingIdle
    /\ ResizeIdle

SpecCachedProvider == InitCachedProvider /\ [][CachedProviderNext]_vars

\* the provider createLazyEmbeddingProvider returns, under the tools of either
\* server file; neither calls preInitialize
LazyNext ==
    \/ ServerToolStarts
    \/ IndexToolStarts
    \/ GenerateLooksUp
    \/ GenerateResumes
    \/ PipelineReturns
    \/ PipelineThrows
    \/ LoadResolves
    \/ LoadRejects

InitLazy ==
    /\ CacheInit(MaxCacheSize)
    /\ ProviderNew("Xenova/all-MiniLM-L6-v2")
    /\ entryPoint \in {"server.ts", "index.ts"}
    /\ QueryIdle /\ ServerInit /\ StorageInit
    /\ FactoryIdle
    /\ MappingIdle
    /\ ResizeIdle

SpecLazy == InitLazy /\ [][LazyNext]_vars

\* every continuation of a call runs once its promise is settled, a started
\* load resolves or is rejected (by its timeout at the latest), and a started
\* pipeline call returns or throws
LazyFairness ==
    /\ WF_vars(GenerateLooksUp)
    /\ WF_vars(GenerateResumes)
    /\ WF_vars(PipelineReturns \/ PipelineThrows)
    /\ WF_vars(LoadResolves \/ LoadRejects)

SpecLazyFair == SpecLazy /\ LazyFairness

\* a provider constructed for the model MCP_EMBEDDING_MODEL names
InitAnyModel ==
    /\ CacheInit(MaxCacheSize)
    /\ \E m \in ModelNames : ProviderNew(m)
    /\ entryPoint = "server.ts"
    /\ QueryIdle /\ ServerInit /\ StorageInit
    /\ FactoryIdle
    /\ MappingIdle
    /\ ResizeIdle

SpecAnyModel == InitAnyModel /\ [][ProviderNext]_vars

QueryNext == SearchDocuments \/ GetContextWindow

InitQuery == CacheInit(MaxCacheSize) /\ ProviderIdle /\ QueryInit /\ ServerInit /\ StorageInit
    /\ FactoryIdle
    /\ MappingIdle
    /\ ResizeIdle

SpecQuery == InitQuery /\ [][QueryNext]_vars

ServerNext ==
    \/ AddDocumentStarts
    \/ ChunkEmbedded
    \/ ChunkEmbeddingFails
    \/ DocumentWritten
    \/ DocumentWriteFails
    \/ DeleteDocumentStarts
    \/ DeleteChecksFile
    \/ DeleteRemovesFile
    \/ DeleteRemovalFails
    \/ GetDocumentTool
    \/ ListDocumentsTool
    \/ SearchDocumentsStarts
    \/ SearchDocumentsFinishes
    \/ SearchQueryEmbeddingFails

InitServer == CacheInit(MaxCacheSize) /\ ProviderIdle /\ QueryIdle /\ ServerInit /\ StorageInit
    /\ FactoryIdle
    /\ MappingIdle
    /\ ResizeIdle

SpecServer == InitServer /\ [][ServerNext]_vars

\* the server with add_document called with any content
AnyContentNext ==
    \/ AddAnyDocumentStarts
    \/ ChunkEmbedded
    \/ ChunkEmbeddingFails
    \/ DocumentWritten
    \/ DocumentWriteFails
    \/ GetDocumentTool
    \/ ListDocumentsTool

InitAnyContent == CacheInit(MaxCacheSize) /\ ProviderIdle /\ QueryIdle /\ ServerInit /\ StorageInit
    /\ FactoryIdle
    /\ MappingIdle
    /\ ResizeIdle

SpecAnyContent == InitAnyContent /\ [][AnyContentNext]_vars

\* the server with process_uploads, on a data directory earlier add_document
\* calls have filled
UploadsNext ==
    \/ ProcessUploadsStarts
    \/ ProcessUploadsFile
    \/ ProcessUploadsReturns

InitUploads ==
    /\ CacheInit(MaxCacheSize) /\ ProviderIdle /\ QueryIdle /\ StorageInit
    /\ \E fs \in StoredBefore : ServerHolding(fs)
    /\ FactoryIdle
    /\ MappingIdle
    /\ ResizeIdle

SpecUploads == InitUploads /\ [][UploadsNext]_vars

\* process_uploads calls that overlap, on a data directory with at most one
\* document
OverlapNext ==
    \/ OverlappingUploadsStart
    \/ OverlappingUploadFinds
    \/ OverlappingUploadRemoves
    \/ OverlappingUploadAdds
    \/ OverlappingUploadsReturn

InitOverlap ==
    /\ CacheInit(MaxCacheSize) /\ ProviderIdle /\ QueryIdle /\ StorageInit
    /\ \E fs \in {f \in StoredBefore : Cardinality(DOMAIN f) <= 1} : ServerHolding(fs)
    /\ FactoryIdle
    /\ MappingIdle
    /\ ResizeIdle

SpecOverlap == InitOverlap /\ [][OverlapNext]_vars

StorageNext ==
    \/ SaveStarts
    \/ SaveWritesDocument
    \/ SaveWritesEmbedding
    \/ SaveFails
    \/ DeleteStarts
    \/ DeleteRemovesDocument
    \/ DeleteChecksEmbedding
    \/ DeleteRemovesEmbedding
    \/ DeleteFails
    \/ StorageRestarts
    \/ MetadataFileLost

InitStorage == CacheInit(MaxCacheSize) /\ ProviderIdle /\ QueryIdle /\ ServerInit /\ StorageInit
    /\ FactoryIdle
    /\ MappingIdle
    /\ ResizeIdle

SpecStorage == InitStorage /\ [][StorageNext]_vars

\* the provider factory, called up to MaxProviders times
FactoryNext ==
    \/ CreateProviderStarts
    \/ ModelLoads
    \/ TestEmbeddingReturns
    \/ TestEmbeddingFails

InitFactory ==
    /\ CacheInit(MaxCacheSize) /\ ProviderIdle /\ QueryIdle /\ ServerInit /\ StorageInit
    /\ FactoryIdle
    /\ MappingIdle
    /\ ResizeIdle

SpecFactory == InitFactory /\ [][FactoryNext]_vars

\* the Gemini file mappings from server start, with up to MaxMappings adds
MappingNext ==
    \/ MappingInitializes
    \/ MappingFileRead
    \/ MappingsLoaded
    \/ MappingAdded
    \/ MappingsSaved
    \/ MappingsSaveFails

InitMapping ==
    /\ CacheInit(MaxCacheSize) /\ ProviderIdle /\ QueryIdle /\ ServerInit /\ StorageInit
    /\ FactoryIdle
    /\ MappingInit
    /\ ResizeIdle

SpecMapping == InitMapping /\ [][MappingNext]_vars

(***************************************************************************)
(* C1: a setEmbedding of a key that is not stored, made while the cache    *)
(* holds maxSize entries, removes exactly one entry, the one whose latest  *)
(* get-hit or set is the oldest, and keeps every other entry; in           *)
(* particular the most recently touched key survives.                      *)
(***************************************************************************)
\* the stored key touched longest ago
OldestTouched(c) == CHOOSE k \in DOMAIN c : \A j \in DOMAIN c : touched[k] <= touched[j]

LRUEvictsOldest ==
    [][ (\E t \in CacheTexts, v \in CacheVectors :
            /\ setEmbedding(t, v)
            /\ hash(t) \notin DOMAIN cache
            /\ Cardinality(DOMAIN cache) = maxSize)
        => /\ (DOMAIN cache) \ (DOMAIN cache') = {OldestTouched(cache)}
           /\ \A k \in (DOMAIN cache) \ {OldestTouched(cache)} :
                 k \in DOMAIN cache' /\ cache'[k].embedding = cache[k].embedding
           /\ Cardinality(DOMAIN cache') = maxSize ]_vars

\* a full cache in which a read protected the older key: the set that followed
\* evicted the key written later
LRUEvictionAfterHit ==
    /\ cacheOp.kind = "set"
    /\ cacheOp.wasFull
    /\ maxSize >= 2
    /\ Cardinality(cacheOp.before) = maxSize
    /\ \E k \in cacheOp.before :
          /\ k \in DOMAIN cache
          /\ cache[k].accessCount > 1
          /\ cacheOp.before \ DOMAIN cache # {}
RetryAfterFailedLoad ==
    \A c \in Calls :
        /\ (calls[c].kind = "gen" /\ calls[c].pc = "done" /\ calls[c].awaiting # 0
              /\ Rejected(calls[c].awaiting)) => calls[c].outcome = "initError"
        /\ (calls[c].kind = "gen" /\ calls[c].sawFailure) => ~calls[c].stale
(***************************************************************************)
(* C4: searchDocuments on an existing document returns the first           *)
(* min(limit, n) of its n embedded chunks in strictly descending order of  *)
(* score, chunks of equal score in ascending chunk_index, and a chunk      *)
(* whose embedding is the zero vector has score 0.                         *)
(***************************************************************************)
IsZeroVector(v) == Len(v) > 0 /\ \A i \in 1..Len(v) : v[i] = 0

\* a goes before b: higher score, or equal score and lower chunk_index
RanksBefore(a, b) ==
    \/ ScoreLess(b.score, a.score)
    \/ ScoreEqual(a.score, b.score) /\ a.chunk.chunk_index < b.chunk.chunk_index

SearchRanksEmbeddedChunks ==
    qResult.op = "search" =>
        LET out == qResult.results
            embedded == filterEmbedded(qDoc)
            returned == {out[i].chunk : i \in 1..Len(out)}
        IN  /\ Len(out) = Min(qResult.limit, Len(embedded))
            /\ returned \subseteq Range(embedded)
            /\ \A i, j \in 1..Len(out) : i < j => RanksBefore(out[i], out[j])
            /\ \A i \in 1..Len(out) : \A c \in Range(embedded) \ returned :
                 RanksBefore(out[i],
                             [chunk |-> c,
                              score |-> cosineSimilarity(qResult.query, c.embeddings)])
            /\ \A i \in 1..Len(out) :
                 IsZeroVector(out[i].chunk.embeddings) => out[i].score = Zero

(***************************************************************************)
(* C5: get_context_window on an existing document returns exactly the      *)
(* chunks at the positions from max(0, chunk_index - before) up to but not *)
(* including min(total, chunk_index + after + 1), in original order, with  *)
(* center = chunk_index and total_chunks = total.                          *)
(***************************************************************************)
WindowIsClampedInterval ==
    qResult.op = "window" =>
        LET total == Len(qDoc)
            lo == Max(0, qResult.chunk_index - qResult.before)
            hi == Min(total, qResult.chunk_index + qResult.after + 1)
            positions == {i \in 0..(total - 1) : lo <= i /\ i < hi}
            window == qResult.out.window
        IN  /\ {window[i] : i \in 1..Len(window)} = positions
            /\ \A i, j \in 1..Len(window) : i < j => window[i] < window[j]
            /\ qResult.out.center = qResult.chunk_index
            /\ qResult.out.total_chunks = total

(***************************************************************************)
(* C6: the store never holds two live documents with the same content: an  *)
(* add of content that a live document already has creates no second      *)
(* document.  Identical content is the least that "the same normalized     *)
(* content" covers.                                                        *)
(***************************************************************************)
LiveIds == {id \in DOMAIN files : files[id].valid}

OneDocumentPerContent ==
    \A i, j \in LiveIds : files[i].content = files[j].content => i = j

DeletedStaysGone ==
    [][lastRes' # lastRes =>
         /\ (lastRes'.op = "get" /\ lastRes'.id \in deleted) => lastRes'.outcome = "notFound"
         /\ lastRes'.op = "list" => lastRes'.ids \cap deleted = {}
         /\ (lastRes'.op = "search" /\ lastRes'.afterDelete) => lastRes'.outcome = "notFound"]_vars

\* get_document was called on a deleted id while another document is stored
GetAfterDelete ==
    /\ lastRes.op = "get"
    /\ lastRes.id \in deleted
    /\ lastRes.outcome = "notFound"
    /\ LiveIds # {}

(***************************************************************************)
(* C8: a delete of an id that has no stored document answers not found     *)
(* (false), and a delete of a stored id that fails at one of its steps     *)
(* ends in an error, not in a normal result.                               *)
(***************************************************************************)
DeleteReportsWhatHappened ==
    outcome.op = "delete" =>
        /\ ~outcome.existed => outcome.result = "false"
        /\ (outcome.existed /\ outcome.failed) => outcome.result = "throws"

(***************************************************************************)
(* C10: whenever no save or delete is in flight, an id is in the metadata  *)
(* map and in metadata.json exactly if load(id) finds its document.        *)
(***************************************************************************)
IndexMatchesDocuments ==
    operations = EmptyBag =>
        \A id \in Ids :
            /\ id \in list(metadata) <=> load(documents, id) # Null
            /\ id \in DOMAIN metadataFile <=> load(documents, id) # Null

(***************************************************************************)
(* C11: when FileDocumentStorage is constructed over a metadata.json that  *)
(* is missing, empty or corrupt, the constructor returns, and every        *)
(* document file on disk is found by load, listed by list and, when it has *)
(* an embedding, scored by search.                                         *)
(***************************************************************************)
IndexRebuiltAfterDamage ==
    (outcome.op = "construct" /\ outcome.file # "ok") =>
        /\ outcome.result = "returns"
        /\ \A id \in DOMAIN documents :
             /\ load(documents, id) # Null
             /\ id \in list(metadata)
             /\ id \in embeddings => id \in searchable(metadata, documents, embeddings)

(***************************************************************************)
(* C12: whatever setEmbedding, getEmbedding, preload, resize, clear and    *)
(* importCache calls were made, the cache never holds more entries than    *)
(* its capacity maxSize.                                                   *)
(***************************************************************************)
CacheWithinCapacity == Cardinality(DOMAIN cache) <= maxSize

\* the two texts differ at most in letter case and surrounding whitespace
SameUpToCaseAndPadding(s, t) == toLowerCase(trim(s)) = toLowerCase(trim(t))

\* call c invoked the pipeline, stored its output, and returned it
Computed(c) == calls[c].kind = "gen" /\ calls[c].outcome = "computed"

\* call d was issued after call c had returned its vector, and the entry c
\* stored was not evicted in between
IssuedOnLiveEntry(c, d) ==
    /\ Computed(c)
    /\ calls[d].kind = "gen"
    /\ SameUpToCaseAndPadding(calls[c].text, calls[d].text)
    /\ calls[c].doneAt < calls[d].at
    /\ ~ \E e \in Calls : /\ Computed(e)
                          /\ calls[c].doneAt < calls[e].doneAt
                          /\ calls[e].doneAt < calls[d].at
                          /\ toLowerCase(trim(calls[c].text)) \in calls[e].evicts

\* no call for a text with the same key stored the pipeline's output between
\* the return of c and the issue of d
NoStoreBetween(c, d) ==
    ~ \E e \in Calls : /\ Computed(e)
                       /\ SameUpToCaseAndPadding(calls[c].text, calls[e].text)
                       /\ calls[c].doneAt < calls[e].doneAt
                       /\ calls[e].doneAt < calls[d].at

\* the pipeline is invoked only by calls that missed the cache, and a call
\* that missed fails only when the load it waited for was rejected or the
\* pipeline threw
ModelOnlyOnMiss ==
    \A c \in Calls :
        /\ calls[c].hit => calls[c].pc \in {"afterCache", "done"}
                           /\ calls[c].outcome \in {"none", "cached"}
        /\ calls[c].outcome = "initError" => Rejected(calls[c].awaiting)
        /\ calls[c].outcome # "noPipeline"

(***************************************************************************)
(* C13 as stated: with the cache enabled the model is invoked only on a    *)
(* miss and a miss alone is never an error; once generateEmbedding(t) has  *)
(* returned a vector, every later call for a text that differs from t only *)
(* in case or surrounding whitespace is a hit that returns that same       *)
(* vector, as long as the entry has not been evicted.                      *)
(***************************************************************************)
CacheHitRepeatsVector ==
    /\ ModelOnlyOnMiss
    /\ \A c, d \in Calls :
          IssuedOnLiveEntry(c, d) =>
              calls[d].hit /\ calls[d].result = calls[c].result

(***************************************************************************)
(* C13, amended: the later call is a hit, invokes no model, and returns    *)
(* the vector the entry holds, which is the one returned by the earlier    *)
(* call unless another call for a text with the same key stored its own    *)
(* pipeline output in between.                                             *)
(***************************************************************************)
CacheHitReturnsEntry ==
    /\ ModelOnlyOnMiss
    /\ \A c, d \in Calls :
          IssuedOnLiveEntry(c, d) =>
              /\ calls[d].hit
              /\ NoStoreBetween(c, d) => calls[d].result = calls[c].result

\* a call for "A " has returned from the cache the vector computed for "a"
HitOnOtherSpelling ==
    \E c, d \in Calls :
        /\ IssuedOnLiveEntry(c, d)
        /\ NoStoreBetween(c, d)
        /\ calls[c].text # calls[d].text
        /\ calls[d].pc = "done"
        /\ calls[d].outcome = "cached"
        /\ calls[d].result = ModelOutput(calls[c].text)

(***************************************************************************)
(* C14: every vector generateEmbedding returns, computed by the model or   *)
(* served from the cache, has getDimensions() components.                  *)
(***************************************************************************)
VectorsHaveProviderDimensions ==
    \A c \in Calls :
        (calls[c].kind = "gen" /\ calls[c].outcome \in {"computed", "cached"})
            => Len(calls[c].result) = getDimensions

\* a vector of norm 0
HasZeroNorm(v) == \A i \in 1..Len(v) : v[i] = 0

(***************************************************************************)
(* C15: for vectors of equal length of which one is the zero vector,       *)
(* cosineSimilarity is the number 0, never NaN.                            *)
(***************************************************************************)
ZeroVectorScoresZero ==
    qResult.op = "search" =>
        \A i \in 1..Len(qResult.results) :
            LET a == qResult.query
                b == qResult.results[i].chunk.embeddings
            IN  (Len(a) = Len(b) /\ (HasZeroNorm(a) \/ HasZeroNorm(b)))
                    => qResult.results[i].score = Zero

(***************************************************************************)
(* C16: a search whose query embedding differs in length from the          *)
(* embedding of a chunk does not return results: no search returns while   *)
(* such a chunk is among those it scores, and no returned result carries a *)
(* score for such a pair.                                                  *)
(***************************************************************************)
DimensionMismatchReported ==
    qResult.op = "search" =>
        /\ \A c \in Range(filterEmbedded(qDoc)) : Len(c.embeddings) = Len(qResult.query)
        /\ \A i \in 1..Len(qResult.results) :
             Len(qResult.results[i].chunk.embeddings) = Len(qResult.query)

(***************************************************************************)
(* C17: when process_uploads has returned, every title it counted as       *)
(* processed is carried by exactly one stored document, and no document    *)
(* that carried such a title before the call is still stored.              *)
(***************************************************************************)
UploadReplacesByTitle ==
    (lastRes.op = "process" /\ requests = EmptyBag) =>
        \A title \in lastRes.counted :
            /\ Cardinality({d \in getAllDocuments(files) : d.title = title}) = 1
            /\ \A old \in lastRes.prior :
                 (old.title = title /\ old.id \notin lastRes.created)
                     => getDocument(files, old.id) = Null

(***************************************************************************)
(* C18: add_document with empty content is rejected before any side        *)
(* effect: no add_document call with empty content gets as far as waiting  *)
(* for an embedding or for its file to be written, and no stored document  *)
(* has empty content.                                                      *)
(***************************************************************************)
EmptyContentRejected ==
    /\ \A req \in InFlight : req.op = "add" => req.content # <<>>
    /\ \A id \in DOMAIN files : files[id].valid => files[id].content # <<>>

\* the first request that needs an embedding has been issued
FirstRequestIssued == calls[1].pc # "idle"

(***************************************************************************)
(* C19: with the lazily created provider no load is started before a       *)
(* request needs an embedding; the first such request starts the load, and *)
(* it completes successfully unless the load is rejected or the pipeline   *)
(* throws.                                                                 *)
(***************************************************************************)
LazyLoadServesFirstRequest ==
    /\ [](promiseState # EmptyMap => FirstRequestIssued)
    /\ FirstRequestIssued ~> (promiseState # EmptyMap)
    /\ FirstRequestIssued ~> (calls[1].outcome \in {"computed", "initError", "embedError"})

(***************************************************************************)
(* C20: in every stored document the chunk_index values are 0, 1, ..., n-1 *)
(* in list order, every chunk has start_position <= end_position, the      *)
(* positions do not decrease from one chunk to the next, and they are      *)
(* offsets into the document's text, that is, none lies beyond its end.    *)
(***************************************************************************)
ChunkPositionsAreOffsets ==
    \A id \in DOMAIN files :
        files[id].valid =>
            LET chunks == files[id].chunks
                n == Len(chunks)
            IN  \A i \in 1..n :
                  /\ chunks[i].chunk_index = i - 1
                  /\ 0 <= chunks[i].start_position
                  /\ chunks[i].start_position <= chunks[i].end_position
                  /\ i < n => /\ chunks[i].start_position <= chunks[i + 1].start_position
                              /\ chunks[i].end_position <= chunks[i + 1].end_position
                  /\ chunks[i].end_position <= Len(files[id].content)

\* the contents of the chunks, joined in list order
RECURSIVE joinContents(_)
joinContents(chunks) ==
    IF chunks = <<>> THEN <<>> ELSE Head(chunks).content \o joinContents(Tail(chunks))

(***************************************************************************)
(* C21: the contents of a stored document's chunks, joined in chunk_index  *)
(* order (the chunks of createChunks do not overlap), are the document's   *)
(* text.                                                                   *)
(***************************************************************************)
ChunksReconstructText ==
    \A id \in DOMAIN files :
        files[id].valid => joinContents(files[id].chunks) = files[id].content

\* the sentences createChunks finds in a text
sentencesOf(content) == filterNonBlank(split(content, <<>>))

\* some sentence of the text is longer than a chunk may be
HasLongSentence(content) ==
    \E i \in 1..Len(sentencesOf(content)) : Len(trim(sentencesOf(content)[i])) > chunkSize

(***************************************************************************)
(* C22: every chunk of a stored document has at most chunkSize characters, *)
(* and ends in '.', '!' or '?' unless the text has a sentence longer than  *)
(* chunkSize, which is cut into pieces.                                    *)
(***************************************************************************)
ChunksWithinMaxSize ==
    \A id \in DOMAIN files :
        files[id].valid =>
            \A i \in 1..Len(files[id].chunks) :
                LET chunk == files[id].chunks[i].content
                IN  /\ Len(chunk) <= chunkSize
                    /\ \/ HasLongSentence(files[id].content)
                       \/ chunk # <<>> /\ IsTerminator(chunk[Len(chunk)])

\* the tool call ended in the error "Document or chunk not found" and returned
\* no window
EndedNotFound(res) == "window" \notin DOMAIN res.out

(***************************************************************************)
(* C23: get_context_window on an existing document with a chunk_index that *)
(* is below 0 or not below the number of its chunks ends in a not-found    *)
(* outcome and returns no window.                                          *)
(***************************************************************************)
WindowIndexOutOfRangeNotFound ==
    /\ qResult.op = "window"
    /\ qResult.chunk_index < 0 \/ qResult.chunk_index >= Len(qDoc)
    => EndedNotFound(qResult)

\* the model whose dimensions a caller of createEmbeddingProvider expects
expectedModel(requested) == IF requested = "" THEN defaultModel ELSE requested

(***************************************************************************)
(* C24: createEmbeddingProvider never rejects, and a call all of whose     *)
(* models failed resolved to a SimpleEmbeddingProvider that is available   *)
(* and has the declared dimensions of the model asked for, or of the       *)
(* default model when none was asked for.                                  *)
(***************************************************************************)
FallbackHasRequestedDimensions ==
    /\ factory.pc # "rejected"
    /\ \A i \in 1..Len(created) :
          created[i].provider.kind = "simple" =>
              /\ created[i].provider.isAvailable
              /\ created[i].provider.dimensions
                    = getModelDimensions(expectedModel(created[i].requested))

\* the step is the last one of an add_document call: its writeFile
AddDocumentReturns ==
    \E req \in InFlight :
        /\ req.op = "add"
        /\ req.pc = "write"
        /\ requests' = finished(requests, req)

(***************************************************************************)
(* C25: add_document leaves every stored document as it was: what          *)
(* get_document returned for an id before the call's write, it returns     *)
(* after it, whatever id the new document got.                             *)
(***************************************************************************)
AddKeepsStoredDocuments ==
    [][AddDocumentReturns =>
          \A id \in DOMAIN files :
              getDocument(files, id) # Null =>
                  getDocument(files', id) = getDocument(files, id)]_vars

(***************************************************************************)
(* C26: when process_uploads has returned and its addDocument failed for a *)
(* file, the document that carried the file's title before the call is     *)
(* still stored under its id with that title; the failure is among the     *)
(* errors, and every file of the folder was either processed or listed as  *)
(* an error.                                                               *)
(***************************************************************************)
FailedUploadKeepsOldDocument ==
    (lastRes.op = "process" /\ requests = EmptyBag) =>
        /\ \A old \in lastRes.prior :
              old.title \in lastRes.failed =>
                  /\ getDocument(files, old.id) # Null
                  /\ getDocument(files, old.id).title = old.title
        /\ lastRes.errors >= Cardinality(lastRes.failed)
        /\ lastRes.processed + lastRes.errors = lastRes.found

(***************************************************************************)
(* C27: when two process_uploads calls that overlapped in time have both   *)
(* returned, every title they counted as processed is carried by exactly   *)
(* one stored document.                                                    *)
(***************************************************************************)
OverlappingUploadsKeepOnePerTitle ==
    (/\ requests = EmptyBag
     /\ lastRes.op = "process"
     /\ lastRes.returned = MaxInFlight
     /\ lastRes.overlapped)
    => \A title \in lastRes.counted :
          Cardinality({d \in getAllDocuments(files) : d.title = title}) = 1

\* the table the mappings add up to: what the file held at initialize time,
\* with the mappings added since put over it
ExpectedMappings ==
    [d \in DOMAIN mappingLog.atInit \cup DOMAIN mappingLog.added |->
        IF d \in DOMAIN mappingLog.added THEN mappingLog.added[d] ELSE mappingLog.atInit[d]]

\* initialize, its load and every addMapping call have settled, and no
\* writeFile was rejected
MappingsSettled ==
    /\ mappingLog.initialized
    /\ mappingOps = EmptyBag
    /\ mappingLog.writeErrors = 0

(***************************************************************************)
(* C28: once initialize, its background load and every addMapping call     *)
(* have settled, with every write accepted by the file system, the table   *)
(* in memory and gemini_file_mappings.json are equal and hold every        *)
(* mapping of the file at initialize time and every mapping added.         *)
(***************************************************************************)
NoMappingLost ==
    MappingsSettled =>
        /\ mappingFile.data = mappingData
        /\ mappingData = ExpectedMappings

\* the cache and the access order importCache builds from the export of the
\* current cache
ImportedExport == importEntries(EmptyMap, <<>>, exportCache.entries)

(***************************************************************************)
(* C29: in every state of the cache, importing its export gives the same   *)
(* keys with the same vectors, the same capacity, and the same order from  *)
(* least to most recently used.                                            *)
(***************************************************************************)
RoundTripKeepsCache ==
    /\ DOMAIN ImportedExport.cache = DOMAIN cache
    /\ \A h \in DOMAIN cache : ImportedExport.cache[h].embedding = cache[h].embedding
    /\ (IF exportCache.maxSize # 0 THEN exportCache.maxSize ELSE maxSize) = maxSize
    /\ ImportedExport.accessOrder = accessOrder

(***************************************************************************)
(* C30: every resize call returns, whatever size it was called with and    *)
(* whatever the cache held.                                                *)
(***************************************************************************)
ResizeTerminates == (resizing.pc = "while") ~> (resizing.pc = "idle")

====
